---------------------------- MODULE Spec2Model ----------------------------
(***************************************************************************)
(* A model of the query router, the citation tool, the LangGraph pipelines *)
(* and the HTTP endpoints of the perplexity_clone repository.              *)
(*                                                                         *)
(* Python strings are sequences of one-character strings, so that strip,   *)
(* lower, split, substring search and the citation regex are computed      *)
(* character by character, as the code computes them.                      *)
(***************************************************************************)
EXTENDS Naturals, Sequences, FiniteSets, TLC

(***************************************************************************)
(* Bounds of the model.                                                    *)
(***************************************************************************)
\* phrases of which a routed query is made
MaxPhrases == 2

\* pieces of which an answer given to the citation tool is made
MaxPieces == 3

\* candidate sources given to the citation tool
MaxSources == 3

\* results a search answers with
MaxResults == 3

\* file names a workspace holds
MaxFiles == 2

\* the most messages the chat histories hold together when a request is taken
MaxHistory == 2

(***************************************************************************)
(* Python string primitives.                                               *)
(***************************************************************************)
\* the cased letters: upper case to lower case
UpperToLower ==
  "A" :> "a" @@ "B" :> "b" @@ "C" :> "c" @@ "D" :> "d" @@ "E" :> "e" @@
  "F" :> "f" @@ "G" :> "g" @@ "H" :> "h" @@ "I" :> "i" @@ "J" :> "j" @@
  "K" :> "k" @@ "L" :> "l" @@ "M" :> "m" @@ "N" :> "n" @@ "O" :> "o" @@
  "P" :> "p" @@ "Q" :> "q" @@ "R" :> "r" @@ "S" :> "s" @@ "T" :> "t" @@
  "U" :> "u" @@ "V" :> "v" @@ "W" :> "w" @@ "X" :> "x" @@ "Y" :> "y" @@
  "Z" :> "z"

Whitespace == {" ", "\t", "\n"}

SetMin(S) == CHOOSE x \in S : \A y \in S : x <= y

SetMax(S) == CHOOSE x \in S : \A y \in S : y <= x

\* str.isupper() of one character
isupper(c) == c \in DOMAIN UpperToLower

lower_char(c) == IF isupper(c) THEN UpperToLower[c] ELSE c

\* str.lower()
RECURSIVE lower(_)
lower(s) == IF s = <<>> THEN <<>> ELSE <<lower_char(Head(s))>> \o lower(Tail(s))

\* str.strip()
strip(s) ==
  LET keep == {i \in 1..Len(s) : s[i] \notin Whitespace}
  IN  IF keep = {} THEN <<>> ELSE SubSeq(s, SetMin(keep), SetMax(keep))

\* str.split(): the maximal runs of non-whitespace characters
RECURSIVE split_from(_, _, _, _)
split_from(s, i, cur, acc) ==
  IF i > Len(s)
    THEN IF cur = <<>> THEN acc ELSE Append(acc, cur)
    ELSE IF s[i] \in Whitespace
           THEN split_from(s, i + 1, <<>>,
                           IF cur = <<>> THEN acc ELSE Append(acc, cur))
           ELSE split_from(s, i + 1, Append(cur, s[i]), acc)

split(s) == split_from(s, 1, <<>>, <<>>)

\* w in s
substring_in(w, s) ==
  \E i \in 1..(Len(s) + 1 - Len(w)) : \A j \in 1..Len(w) : s[i + j - 1] = w[j]

\* s.startswith(p)
startswith(s, p) == Len(p) <= Len(s) /\ \A j \in 1..Len(p) : s[j] = p[j]

\* s in list
in_list(s, list) == \E k \in 1..Len(list) : list[k] = s

RECURSIVE concat(_)
concat(ss) == IF ss = <<>> THEN <<>> ELSE Head(ss) \o concat(Tail(ss))

\* sep.join(ss)
RECURSIVE join(_, _)
join(sep, ss) ==
  IF ss = <<>> THEN <<>>
  ELSE IF Len(ss) = 1 THEN ss[1]
  ELSE ss[1] \o sep \o join(sep, Tail(ss))

(***************************************************************************)
(* rag/router.py: the keyword lists.                                       *)
(***************************************************************************)
greetings ==
  << <<"h", "i">>,
     <<"h", "e", "l", "l", "o">>,
     <<"h", "e", "y">>,
     <<"y", "o">>,
     <<"s", "u", "p">>,
     <<"h", "i", " ", "t", "h", "e", "r", "e">>,
     <<"h", "e", "l", "l", "o", " ", "t", "h", "e", "r", "e">> >>

image_words ==
  << <<"i", "m", "a", "g", "e">>,
     <<"p", "h", "o", "t", "o">>,
     <<"p", "i", "c">>,
     <<"p", "i", "c", "t", "u", "r", "e">>,
     <<"l", "o", "g", "o">>,
     <<"w", "a", "l", "l", "p", "a", "p", "e", "r">>,
     <<"s", "c", "r", "e", "e", "n", "s", "h", "o", "t">> >>

realtime ==
  << <<"t", "o", "d", "a", "y">>,
     <<"n", "o", "w">>,
     <<"l", "a", "t", "e", "s", "t">>,
     <<"c", "u", "r", "r", "e", "n", "t">>,
     <<"p", "r", "i", "c", "e">>,
     <<"s", "t", "o", "c", "k">>,
     <<"w", "e", "a", "t", "h", "e", "r">>,
     <<"n", "e", "w", "s">>,
     <<"u", "p", "d", "a", "t", "e">>,
     <<"l", "i", "v", "e">>,
     <<"s", "c", "o", "r", "e">>,
     <<"m", "a", "t", "c", "h">>,
     <<"s", "c", "h", "e", "d", "u", "l", "e">> >>

patterns ==
  << <<"p", "r", "i", "m", "e", " ", "m", "i", "n", "i", "s", "t", "e", "r">>,
     <<"p", "r", "e", "s", "i", "d", "e", "n", "t">>,
     <<"c", "a", "p", "i", "t", "a", "l", " ", "o", "f">>,
     <<"c", "e", "o">>,
     <<"f", "o", "u", "n", "d", "e", "r">>,
     <<"p", "o", "p", "u", "l", "a", "t", "i", "o", "n">>,
     <<"r", "i", "c", "h", "e", "s", "t">>,
     <<"o", "l", "d", "e", "s", "t">>,
     <<"l", "a", "r", "g", "e", "s", "t">>,
     <<"s", "m", "a", "l", "l", "e", "s", "t">>,
     <<"c", "u", "r", "r", "e", "n", "c", "y">>,
     <<"c", "o", "u", "n", "t", "r", "y">>,
     <<"s", "t", "a", "t", "e">>,
     <<"c", "i", "t", "y">>,
     <<"m", "i", "n", "i", "s", "t", "e", "r">>,
     <<"g", "o", "v", "e", "r", "n", "m", "e", "n", "t">>,
     <<"p", "a", "r", "t", "y">> >>

ai_models ==
  << <<"g", "p", "t">>,
     <<"g", "e", "m", "i", "n", "i">>,
     <<"l", "l", "a", "m", "a">>,
     <<"c", "l", "a", "u", "d", "e">>,
     <<"g", "r", "o", "k">>,
     <<"m", "i", "s", "t", "r", "a", "l">>,
     <<"p", "h", "i">> >>

definition_prefixes ==
  << <<"w", "h", "a", "t", " ", "i", "s">>,
     <<"d", "e", "f", "i", "n", "e">>,
     <<"e", "x", "p", "l", "a", "i", "n">> >>

deep_words ==
  << <<"c", "o", "m", "p", "a", "r", "e">>,
     <<"a", "n", "a", "l", "y", "s", "i", "s">>,
     <<"i", "m", "p", "a", "c", "t">>,
     <<"a", "d", "v", "a", "n", "t", "a", "g", "e", "s">>,
     <<"d", "i", "s", "a", "d", "v", "a", "n", "t", "a", "g", "e", "s">>,
     <<"e", "v", "a", "l", "u", "a", "t", "e">>,
     <<"f", "u", "t", "u", "r", "e">>,
     <<"s", "t", "r", "a", "t", "e", "g", "y">>,
     <<"r", "i", "s", "k">> >>

\* the mode tags
M_llm == <<"l", "l", "m">>

M_image == <<"i", "m", "a", "g", "e">>

M_web == <<"w", "e", "b">>

M_rag == <<"r", "a", "g">>

M_deep_research == <<"d", "e", "e", "p", "_", "r", "e", "s", "e", "a", "r", "c", "h">>

\* the tokens llm_decide accepts from the backend
allowed_modes == << M_web, M_rag, M_llm, M_deep_research >>

(***************************************************************************)
(* The outcome of a call: a returned value, or an exception that leaves    *)
(* the callee.                                                             *)
(***************************************************************************)
Return(v) == [kind |-> "return", value |-> v]

Raise == [kind |-> "raise"]

\* what self.llm.invoke(...) does: it answers with a content, or it fails
BackendOk(c) == [ok |-> TRUE, content |-> c]

BackendFail == [ok |-> FALSE]

(***************************************************************************)
(* rag/router.py: RouterAgent.                                             *)
(***************************************************************************)
contains(q, words) ==
  LET ql == lower(q)
  IN  \E k \in 1..Len(words) : substring_in(words[k], ql)

is_greeting(q) ==
  LET q_low == strip(lower(q))
  IN  in_list(q_low, greetings)

is_image_query(q) == contains(q, image_words)

is_realtime(q) == contains(q, realtime)

is_world_fact(q) == contains(q, patterns)

is_ai_model(q) == contains(q, ai_models)

is_definition(q) ==
  LET ql == lower(q)
  IN  \E k \in 1..Len(definition_prefixes) : startswith(ql, definition_prefixes[k])

is_deep(q) ==
  LET ql == lower(q)
  IN  \E k \in 1..Len(deep_words) : substring_in(deep_words[k], ql)

is_entity(q) ==
  LET words == split(q)
      caps == SelectSeq(words, LAMBDA w : Len(w) >= 1 /\ isupper(w[1]))
  IN  Len(caps) >= 1

\* llm_decide that trusts the backend: the reply is returned unchecked
llm_decide_unchecked(q, b) ==
  IF ~b.ok THEN Raise ELSE Return(lower(strip(b.content)))

\* llm_decide: b is what the backend does when it is invoked
llm_decide(q, b) ==
  IF ~b.ok
    THEN Raise
    ELSE LET resp == lower(strip(b.content))
         IN  IF in_list(resp, allowed_modes) THEN Return(resp) ELSE Return(M_llm)

\* does route(q) get as far as the backend call
route_reaches_llm(q0) ==
  LET q == strip(q0)
  IN  /\ ~is_greeting(q)
      /\ ~is_image_query(q)
      /\ ~is_realtime(q)
      /\ ~is_world_fact(q)
      /\ ~is_ai_model(q)
      /\ ~(Len(split(q)) <= 2 /\ is_entity(q))
      /\ ~is_deep(q)
      /\ ~is_definition(q)

\* route with the definition rule tried before the analysis rule
route_definition_before_deep(q0, b) ==
  LET q == strip(q0)
  IN  IF is_greeting(q) THEN Return(M_llm)
      ELSE IF is_image_query(q) THEN Return(M_image)
      ELSE IF is_realtime(q) THEN Return(M_web)
      ELSE IF is_world_fact(q) THEN Return(M_web)
      ELSE IF is_ai_model(q) THEN Return(M_web)
      ELSE IF Len(split(q)) <= 2 /\ is_entity(q) THEN Return(M_web)
      ELSE IF is_definition(q) THEN Return(M_rag)
      ELSE IF is_deep(q) THEN Return(M_deep_research)
      ELSE llm_decide(q, b)

\* route with the definition rule tried before the real-time rule
route_definition_before_realtime(q0, b) ==
  LET q == strip(q0)
  IN  IF is_greeting(q) THEN Return(M_llm)
      ELSE IF is_image_query(q) THEN Return(M_image)
      ELSE IF is_definition(q) THEN Return(M_rag)
      ELSE IF is_realtime(q) THEN Return(M_web)
      ELSE IF is_world_fact(q) THEN Return(M_web)
      ELSE IF is_ai_model(q) THEN Return(M_web)
      ELSE IF Len(split(q)) <= 2 /\ is_entity(q) THEN Return(M_web)
      ELSE IF is_deep(q) THEN Return(M_deep_research)
      ELSE llm_decide(q, b)

route(q0, b) ==
  LET q == strip(q0)
  IN  IF is_greeting(q) THEN Return(M_llm)
      ELSE IF is_image_query(q) THEN Return(M_image)
      ELSE IF is_realtime(q) THEN Return(M_web)
      ELSE IF is_world_fact(q) THEN Return(M_web)
      ELSE IF is_ai_model(q) THEN Return(M_web)
      ELSE IF Len(split(q)) <= 2 /\ is_entity(q) THEN Return(M_web)
      ELSE IF is_deep(q) THEN Return(M_deep_research)
      ELSE IF is_definition(q) THEN Return(M_rag)
      ELSE llm_decide(q, b)

(***************************************************************************)
(* tools/citation_tool.py: CitationTool.                                   *)
(***************************************************************************)
\* the characters \d matches, with their values
DigitValue ==
  "0" :> 0 @@ "1" :> 1 @@ "2" :> 2 @@ "3" :> 3 @@ "4" :> 4 @@
  "5" :> 5 @@ "6" :> 6 @@ "7" :> 7 @@ "8" :> 8 @@ "9" :> 9

isdigit(c) == c \in DOMAIN DigitValue

\* int(m.group(1))
RECURSIVE int_of(_)
int_of(ds) ==
  IF ds = <<>> THEN 0
  ELSE 10 * int_of(SubSeq(ds, 1, Len(ds) - 1)) + DigitValue[ds[Len(ds)]]

\* the end of the run of digits that starts at i: the first index from i on
\* that holds no digit
RECURSIVE digits_end(_, _)
digits_end(s, i) ==
  IF i <= Len(s) /\ isdigit(s[i]) THEN digits_end(s, i + 1) ELSE i

\* _pattern.finditer(answer): the groups of the matches of \[(\d+)\], left to
\* right, without overlap
RECURSIVE finditer(_, _)
finditer(s, i) ==
  IF i > Len(s) THEN <<>>
  ELSE LET j == digits_end(s, i + 1)
       IN  IF s[i] = "[" /\ j > i + 1 /\ j <= Len(s) /\ s[j] = "]"
             THEN <<SubSeq(s, i + 1, j - 1)>> \o finditer(s, j + 1)
             ELSE finditer(s, i + 1)

\* sorted(S) of a set of integers
RECURSIVE sorted(_)
sorted(S) ==
  IF S = {} THEN <<>> ELSE <<SetMin(S)>> \o sorted(S \ {SetMin(S)})

\* extract_indices that keeps the matches as found: neither sorted nor a set
extract_indices_as_found(answer) ==
  LET groups == finditer(answer, 1)
  IN  [k \in 1..Len(groups) |-> int_of(groups[k])]

extract_indices(answer) ==
  LET groups == finditer(answer, 1)
  IN  sorted({ int_of(groups[k]) : k \in 1..Len(groups) })

RECURSIVE attach_loop(_, _, _)
attach_loop(used, sources, mapped) ==
  IF used = <<>> THEN mapped
  ELSE LET idx == Head(used)
       IN  IF 1 <= idx /\ idx <= Len(sources)
             THEN attach_loop(Tail(used), sources, Append(mapped, sources[idx]))
             ELSE attach_loop(Tail(used), sources, mapped)

attach_sources(answer, sources) ==
  attach_loop(extract_indices(answer), sources, <<>>)

(***************************************************************************)
(* Values of the pipelines.  A text is a sequence of characters; a         *)
(* character outside ASCII is written by its code point ("U+2022").        *)
(***************************************************************************)
\* Python's None: no text equals it, as every element of a text is one character
None == <<"None">>

\* the truth value Python gives a text, a list or None
truthy(v) == v # None /\ v # <<>>

Min(a, b) == IF a <= b THEN a ELSE b

\* s[:n]
prefix(s, n) == SubSeq(s, 1, Min(Len(s), n))

DigitChars == <<"0", "1", "2", "3", "4", "5", "6", "7", "8", "9">>

\* str(n) of a natural number
RECURSIVE str(_)
str(n) ==
  IF n < 10 THEN <<DigitChars[n + 1]>>
  ELSE str(n \div 10) \o <<DigitChars[(n % 10) + 1]>>

\* s.strip(chars)
strip_chars(s, chars) ==
  LET keep == { i \in 1..Len(s) : s[i] \notin chars }
  IN  IF keep = {} THEN <<>> ELSE SubSeq(s, SetMin(keep), SetMax(keep))

\* s.replace(c, "") for one character c
RECURSIVE remove_char(_, _)
remove_char(s, c) ==
  IF s = <<>> THEN <<>>
  ELSE (IF Head(s) = c THEN <<>> ELSE <<Head(s)>>) \o remove_char(Tail(s), c)

\* a state dict of a pipeline: d[k] = v, and d.get(k, default)
Put(d, k, v) == (k :> v) @@ d

Get(d, k, default) == IF k \in DOMAIN d THEN d[k] ELSE default

\* [f(x) for x in s if x passes]: the elements of s at the positions in keep
RECURSIVE pick(_, _, _)
pick(s, keep, i) ==
  IF i > Len(s) THEN <<>>
  ELSE (IF i \in keep THEN <<s[i]>> ELSE <<>>) \o pick(s, keep, i + 1)

(***************************************************************************)
(* A run of a pipeline or of a handler: the state dict, the nodes entered  *)
(* and the adapters called so far, in order, and whether an exception is   *)
(* on its way out.                                                         *)
(***************************************************************************)
Ctx(d) == [st |-> d, log |-> <<>>, err |-> FALSE]

Enter(c, node) == [c EXCEPT !.log = Append(@, node)]

Call(c, adapter) == [c EXCEPT !.log = Append(@, adapter)]

Set(c, k, v) == [c EXCEPT !.st = Put(@, k, v)]

Throw(c) == [c EXCEPT !.err = TRUE]

\* the calls that reach the generation backend
BackendCalls == {"llm.invoke", "followup.generate", "summarizer.summarize"}

(***************************************************************************)
(* The web of the model.  A search returns results, each a dict with a     *)
(* title and, unless the result is of kind "nourl", a url; the url of a    *)
(* result of kind "page" serves text, the url of a result of kind "dead"   *)
(* does not.  tools/browse_tool.py: fetch_clean returns the text of the    *)
(* page, or "" on any failure.                                             *)
(***************************************************************************)
HttpPrefix ==
  <<"h", "t", "t", "p", ":", "/", "/">>

Title(n) == <<"t">> \o str(n)

Url(n) == HttpPrefix \o <<"p">> \o str(n)

DeadUrl(n) == HttpPrefix \o <<"x">> \o str(n)

Snippet(n) == <<"s">> \o str(n)

ResultKinds == {"page", "dead", "nourl"}

Result(n, kind) ==
  CASE kind = "page"  -> [title |-> Title(n), url |-> Url(n), content |-> Snippet(n)]
    [] kind = "dead"  -> [title |-> Title(n), url |-> DeadUrl(n), content |-> Snippet(n)]
    [] kind = "nourl" -> [title |-> Title(n), content |-> Snippet(n)]

\* the results a search answers with: the n-th is Result(base + n, kinds[n])
Results(kinds, base) == [n \in 1..Len(kinds) |-> Result(base + n, kinds[n])]

\* SearchTool.search: what the API answers, at most num_results results; the
\* outcome is Return(kinds), or Raise for an answer that is no list of dicts
search(outcome, num_results, base) ==
  Results(prefix(outcome.value, num_results), base)

\* the urls that serve text: http://a... and http://p...
is_live(url) ==
  /\ Len(url) > Len(HttpPrefix)
  /\ SubSeq(url, 1, Len(HttpPrefix)) = HttpPrefix
  /\ url[Len(HttpPrefix) + 1] \in {"a", "p"}

fetch_clean(url) ==
  IF is_live(url) THEN <<"#">> \o SubSeq(url, Len(HttpPrefix) + 1, Len(url)) ELSE <<>>

(***************************************************************************)
(* tools/followup_tool.py: FollowUpGenerator.generate.  The reply of the   *)
(* backend is given by its lines.                                          *)
(***************************************************************************)
Bullet == "U+2022"

followup_generate(reply) ==
  LET lines == reply.content
      kept  == pick(lines, { i \in 1..Len(lines) : \E j \in 1..Len(lines[i]) : lines[i][j] = Bullet }, 1)
      suggestions == [i \in 1..Len(kept) |-> strip(remove_char(kept[i], Bullet))]
  IN  prefix(suggestions, 4)

(***************************************************************************)
(* rag/agents.py: the agents of the Deep-Research pipeline.                *)
(***************************************************************************)
\* the characters of l.strip("-... ") as the file holds them
PlannerStripChars_text ==
  <<"-", "U+00E2", "U+20AC", "U+00A2", " ">>

PlannerStripChars == { PlannerStripChars_text[i] : i \in 1..Len(PlannerStripChars_text) }

\* PlannerAgent.plan; the reply of the backend is given by its lines
PlannerAgent_plan(c0, reply) ==
  LET c == Call(Enter(c0, "plan"), "llm.invoke")
  IN  IF ~reply.ok THEN Throw(c)
      ELSE LET raw   == reply.content
               kept  == pick(raw, { i \in 1..Len(raw) : strip(raw[i]) # <<>> }, 1)
               lines == [i \in 1..Len(kept) |-> strip(strip_chars(kept[i], PlannerStripChars))]
           IN  IF \E i \in 1..Len(lines) : lines[i] = <<>>
                 THEN Throw(c)    \* l[0] of an empty line: IndexError
                 ELSE LET subqs == pick(lines, { i \in 1..Len(lines) :
                                                   isdigit(lines[i][1]) \/ Len(lines) <= 5 }, 1)
                      IN  Set(c, "sub_questions", prefix(subqs, 5))

\* reranker.rerank(sq, docs, top_k): the docs are drawn in the order of their
\* scores
rerank(docs, top_k) == prefix(docs, top_k)

\* the body of the loop over the results of one search: the page dicts of
\* the results that have a url and text
RECURSIVE research_pages(_, _)
research_pages(results, n) ==
  IF n > Len(results) THEN <<>>
  ELSE LET r   == results[n]
           url == Get(r, "url", None)
       IN  (IF truthy(url) /\ truthy(fetch_clean(url))
              THEN <<[title |-> Get(r, "title", <<>>), url |-> url, content |-> fetch_clean(url)]>>
              ELSE <<>>)
           \o research_pages(results, n + 1)

\* the calls of fetch_clean of that loop
RECURSIVE fetch_calls(_, _)
fetch_calls(results, n) ==
  IF n > Len(results) THEN <<>>
  ELSE (IF truthy(Get(results[n], "url", None)) THEN <<"browse_tool.fetch_clean">> ELSE <<>>)
       \o fetch_calls(results, n + 1)

\* ResearchAgent.research from the k-th sub-question on; e.docs and e.search
\* are the outcomes of vs.retrieve and search_tool.search
RECURSIVE research_loop(_, _, _, _, _)
research_loop(c, e, k, evidence, pages_all) ==
  IF k > Len(Get(c.st, "sub_questions", <<>>))
    THEN Set(Set(c, "web_pages", pages_all), "evidence", evidence)
  ELSE LET c1 == Call(c, "vs.retrieve")
       IN  IF e.docs.kind = "raise" THEN Throw(c1)
           ELSE LET docs == rerank(e.docs.value, 4)
                    c2   == Call(Call(c1, "reranker.rerank"), "search_tool.search")
                IN  IF e.search.kind = "raise" THEN Throw(c2)
                    ELSE LET results == search(e.search, 3, 3 * (k - 1))
                             pages   == research_pages(results, 1)
                             c3      == [c2 EXCEPT !.log = @ \o fetch_calls(results, 1)]
                         IN  research_loop(c3, e, k + 1,
                               evidence \o [i \in 1..Len(docs) |-> docs[i].page_content]
                                 \o [i \in 1..Len(pages) |-> prefix(pages[i].content, 1500)],
                               pages_all \o pages)

ResearchAgent_research(c0, e) ==
  research_loop(Enter(c0, "research"), e, 1, <<>>, <<>>)

DraftPrefix ==
  <<"S", "u", "b", "-", "q", "u", "e", "s", "t", "i", "o", "n", ":", " ">>

\* AggregatorAgent.aggregate from the k-th sub-question on
RECURSIVE aggregate_loop(_, _, _, _)
aggregate_loop(c, reply, k, drafts) ==
  IF k > Len(Get(c.st, "sub_questions", <<>>)) THEN Set(c, "draft_answers", drafts)
  ELSE LET c1 == Call(c, "llm.invoke")
       IN  IF ~reply.ok THEN Throw(c1)
           ELSE aggregate_loop(c1, reply, k + 1,
                  Append(drafts, DraftPrefix \o c.st["sub_questions"][k] \o <<"\n">> \o reply.content))

AggregatorAgent_aggregate(c0, reply) ==
  aggregate_loop(Enter(c0, "aggregate"), reply, 1, <<>>)

WriterAgent_write(c0, reply) ==
  LET c == Call(Enter(c0, "write"), "llm.invoke")
  IN  IF ~reply.ok THEN Throw(c) ELSE Set(c, "final_answer", reply.content)

\* the {"title", "url"} dicts of a list of pages or links
title_url(pages) == [i \in 1..Len(pages) |-> [title |-> pages[i].title, url |-> pages[i].url]]

ValidatorAgent_validate_and_attach(c0) ==
  LET c       == Enter(c0, "validate")
      sources == title_url(prefix(Get(c.st, "web_pages", <<>>), 10))
  IN  Set(c, "sources", attach_sources(Get(c.st, "final_answer", <<>>), sources))

(***************************************************************************)
(* rag/agents.py: the nodes of the Web-Search pipeline.                    *)
(***************************************************************************)
WebSearchNode_search(c0, e) ==
  LET c == Call(Enter(c0, "search"), "search_tool.search")
  IN  IF e.kind = "raise" THEN Set(c, "search_results", <<>>)
      ELSE Set(c, "search_results", search(e, 6, 0))

WebFetchNode_fetch(c0) ==
  LET c       == Enter(c0, "fetch")
      results == Get(c.st, "search_results", <<>>)
      found   == research_pages(results, 1)
      pages   == [i \in 1..Len(found) |->
                    [title |-> found[i].title, url |-> found[i].url,
                     content |-> prefix(found[i].content, 2500)]]
      links   == [i \in 1..Len(found) |->
                    [title |-> found[i].title, url |-> found[i].url,
                     snippet |-> prefix(found[i].content, 200)]]
  IN  Set(Set([c EXCEPT !.log = @ \o fetch_calls(results, 1)], "web_pages", pages), "links", links)

ContextSeparator ==
  <<"\n", "\n", "-", "-", "-", "\n", "\n">>

WebContextNode_build_context(c0) ==
  LET c     == Enter(c0, "build_context")
      pages == Get(c.st, "web_pages", <<>>)
  IN  IF pages # <<>>
        THEN Set(c, "context",
               join(ContextSeparator,
                    [i \in 1..Len(pages) |->
                       <<"[">> \o str(i) \o <<"]", " ">> \o pages[i].title \o <<":", "\n">>
                         \o pages[i].content]))
        ELSE Set(c, "context", <<>>)

\* WebAnswerNode.answer; reply and fu are the outcomes of llm.invoke and of
\* the backend call of followup.generate
WebAnswerNode_answer(c0, reply, fu) ==
  LET c == Call(Enter(c0, "answer"), "llm.invoke")
  IN  IF ~reply.ok THEN Throw(c)
      ELSE LET c1 == Call(Set(c, "answer", reply.content), "followup.generate")
           IN  IF ~fu.ok THEN Throw(c1)
               ELSE Set(Set(c1, "followups", followup_generate(fu)),
                        "sources", title_url(Get(c1.st, "web_pages", <<>>)))

(***************************************************************************)
(* files/file_manager.py: FileWorkspace and FileManager.  A workspace is   *)
(* its flag, its file names and the chunks of its index; an uploaded file  *)
(* is its name and what loading it gives: "text" (a document with text),   *)
(* "blank" (a document without text), "nodocs" (no document) or "error"    *)
(* (the loader raises).                                                    *)
(***************************************************************************)
FileWorkspace_init == [initialized |-> FALSE, files |-> <<>>, index |-> <<>>]

\* Path(name).suffix.lower()
suffix(name) ==
  LET dots == { i \in 2..Len(name) : name[i] = "." }
  IN  IF dots = {} THEN <<>> ELSE lower(SubSeq(name, SetMax(dots), Len(name)))

Ext_pdf ==
  <<".", "p", "d", "f">>

Ext_txt ==
  <<".", "t", "x", "t">>

Ext_md ==
  <<".", "m", "d">>

Ext_ppt ==
  <<".", "p", "p", "t">>

Ext_pptx ==
  <<".", "p", "p", "t", "x">>

Loadable == {Ext_pdf, Ext_txt, Ext_md, Ext_ppt, Ext_pptx}

\* the loop of add_files from the n-th path on: the names appended to files
RECURSIVE loaded_names(_, _)
loaded_names(uploaded, n) ==
  IF n > Len(uploaded) THEN <<>>
  ELSE LET p == uploaded[n]
       IN  (IF suffix(p.name) \in Loadable /\ p.load = "error" THEN <<>> ELSE <<p.name>>)
           \o loaded_names(uploaded, n + 1)

\* the same loop: the documents loaded, each the name of its file and
\* whether it has text
RECURSIVE loaded_docs(_, _)
loaded_docs(uploaded, n) ==
  IF n > Len(uploaded) THEN <<>>
  ELSE LET p == uploaded[n]
       IN  (IF suffix(p.name) \in Loadable /\ p.load \in {"text", "blank"}
              THEN <<[of |-> p.name, text |-> p.load = "text"]>>
              ELSE <<>>)
           \o loaded_docs(uploaded, n + 1)

\* add_files that builds the index anew from every upload
add_files_rebuild(ws, uploaded) ==
  LET docs   == loaded_docs(uploaded, 1)
      ws1    == [ws EXCEPT !.files = @ \o loaded_names(uploaded, 1)]
      p      == uploaded[Len(uploaded)]
      withtext == pick(docs, { i \in 1..Len(docs) : docs[i].text }, 1)
      chunks == [i \in 1..Len(withtext) |->
                   [page_content |-> <<"$">> \o withtext[i].of,
                    metadata |-> [file_path |-> p.name, source |-> p.name]]]
  IN  IF docs = <<>> THEN [ws |-> ws1, err |-> FALSE]
      ELSE IF ~ws1.initialized
        THEN IF chunks = <<>> THEN [ws |-> ws1, err |-> TRUE]
             ELSE [ws |-> [ws1 EXCEPT !.index = chunks, !.initialized = TRUE], err |-> FALSE]
        ELSE [ws |-> [ws1 EXCEPT !.index = chunks], err |-> FALSE]

\* FileWorkspace.add_files: the workspace afterwards, and whether the call
\* raised (FAISS cannot make an index of no chunk)
add_files(ws, uploaded) ==
  LET docs   == loaded_docs(uploaded, 1)
      ws1    == [ws EXCEPT !.files = @ \o loaded_names(uploaded, 1)]
      p      == uploaded[Len(uploaded)]
      withtext == pick(docs, { i \in 1..Len(docs) : docs[i].text }, 1)
      chunks == [i \in 1..Len(withtext) |->
                   [page_content |-> <<"$">> \o withtext[i].of,
                    metadata |-> [file_path |-> p.name, source |-> p.name]]]
  IN  IF docs = <<>> THEN [ws |-> ws1, err |-> FALSE]
      ELSE IF ~ws1.initialized
        THEN IF chunks = <<>> THEN [ws |-> ws1, err |-> TRUE]
             ELSE [ws |-> [ws1 EXCEPT !.index = chunks, !.initialized = TRUE], err |-> FALSE]
        ELSE [ws |-> [ws1 EXCEPT !.index = @ \o chunks], err |-> FALSE]

\* VectorStore.retrieve (vectorstore/store.py): the retriever answers with
\* the nearest chunks, as many as it is set to give
VectorStore_retrieve(index, e) == prefix(index, e.value)

FileWorkspace_retrieve(ws, e) ==
  IF ~ws.initialized THEN <<>> ELSE VectorStore_retrieve(ws.index, e)

\* FileManager.get_workspace: the map afterwards; the workspace is its entry
get_workspace(fm, workspace_id) ==
  IF workspace_id \in DOMAIN fm THEN fm ELSE Put(fm, workspace_id, FileWorkspace_init)

\* FileManager.clear_workspace
clear_workspace_map(fm, workspace_id) ==
  [id \in DOMAIN fm \ {workspace_id} |-> fm[id]]

(***************************************************************************)
(* rag/agents.py: the nodes of the Document-Only pipeline.  The nodes that *)
(* reach the workspace store give the run and the store afterwards.        *)
(***************************************************************************)
Default_source ==
  <<"D", "o", "c", "u", "m", "e", "n", "t">>

\* agents.py:345, as the file holds it
NO_DOCUMENTS ==
  <<"U+00F0", "U+0178", "U+201C", "U+0161", " ", "N", "o", " ", "d", "o", "c",
    "u", "m", "e", "n", "t", "s", " ", "f", "o", "u", "n", "d", ".", " ", "P",
    "l", "e", "a", "s", "e", " ", "u", "p", "l", "o", "a", "d", " ", "f", "i",
    "l", "e", "s", " ", "f", "i", "r", "s", "t", " ", "u", "s", "i", "n", "g",
    " ", "t", "h", "e", " ", "U+00F0", "U+0178", "U+201C", "U+017D", " ", "b",
    "u", "t", "t", "o", "n", ".">>

\* the prefix of a document source's title, agents.py:381
FileIcon ==
  <<"U+00F0", "U+0178", "U+201C", "U+201E", " ">>

RAGRetrieveNode_retrieve(c0, fm, e) ==
  LET c   == Call(Enter(c0, "retrieve"), "file_manager.get_workspace")
      fm1 == get_workspace(fm, Get(c.st, "workspace_id", "default"))
      ws  == fm1[Get(c.st, "workspace_id", "default")]
  IN  IF ~ws.initialized \/ ws.files = <<>>
        THEN [ctx |-> Set(c, "file_chunks", <<>>), fm |-> fm1]
        ELSE LET c1 == Call(c, "ws.retrieve")
             IN  IF e.kind = "raise"
                   THEN [ctx |-> Set(c1, "file_chunks", <<>>), fm |-> fm1]
                   ELSE LET chunks == FileWorkspace_retrieve(ws, e)
                        IN  [ctx |-> Set(c1, "file_chunks",
                                       [i \in 1..Len(chunks) |->
                                          [content |-> chunks[i].page_content,
                                           source |-> Get(chunks[i].metadata, "source", Default_source)]]),
                             fm |-> fm1]

RAGContextNode_build_context(c0) ==
  LET c      == Enter(c0, "build_context")
      chunks == Get(c.st, "file_chunks", <<>>)
  IN  IF chunks # <<>>
        THEN Set(c, "context",
               join(ContextSeparator,
                    [i \in 1..Len(chunks) |->
                       <<"[", "D", "O", "C", " ">> \o str(i) \o <<"]", " ">> \o chunks[i].source
                         \o <<":", "\n">> \o chunks[i].content]))
        ELSE Set(c, "context", <<>>)

\* the sources of the chunks: one per distinct source, in order of first
\* appearance
RECURSIVE chunk_sources(_, _, _)
chunk_sources(chunks, n, seen) ==
  IF n > Len(chunks) THEN <<>>
  ELSE LET src == Get(chunks[n], "source", Default_source)
       IN  IF src \in seen THEN chunk_sources(chunks, n + 1, seen)
           ELSE <<[title |-> FileIcon \o src, url |-> <<>>]>>
                  \o chunk_sources(chunks, n + 1, seen \cup {src})

\* RAGAnswerNode.answer without the branch for an empty context
RAGAnswerNode_answer_always(c0, reply, fu) ==
  LET c == Call(Enter(c0, "answer"), "llm.invoke")
  IN  IF ~reply.ok THEN Throw(c)
      ELSE LET c1 == Call(Set(c, "answer", reply.content), "followup.generate")
           IN  IF ~fu.ok THEN Throw(c1)
               ELSE Set(Set(c1, "followups", followup_generate(fu)),
                        "sources", chunk_sources(Get(c0.st, "file_chunks", <<>>), 1, {}))

RAGAnswerNode_answer(c0, reply, fu) ==
  LET c == Enter(c0, "answer")
  IN  IF ~truthy(Get(c.st, "context", <<>>))
        THEN Set(Set(Set(c, "answer", NO_DOCUMENTS), "sources", <<>>), "followups", <<>>)
        ELSE LET c1 == Call(c, "llm.invoke")
             IN  IF ~reply.ok THEN Throw(c1)
                 ELSE LET c2 == Call(Set(c1, "answer", reply.content), "followup.generate")
                      IN  IF ~fu.ok THEN Throw(c2)
                          ELSE Set(Set(c2, "followups", followup_generate(fu)),
                                   "sources", chunk_sources(Get(c.st, "file_chunks", <<>>), 1, {}))

(***************************************************************************)
(* rag/agents.py: the nodes of the Analysis pipeline.                      *)
(***************************************************************************)
\* the links of the results that have a url and text, snippets cut at n
\* characters
found_links(results, n) ==
  LET found == research_pages(results, 1)
  IN  [i \in 1..Len(found) |->
         [title |-> found[i].title, url |-> found[i].url, snippet |-> prefix(found[i].content, n)]]

\* AnalysisSearchNode.search whose handler of a failing search writes nothing
AnalysisSearchNode_search_bare_handler(c0, e) ==
  LET c == Call(Enter(c0, "search"), "search_tool.search")
  IN  IF e.kind = "raise"
        THEN c
        ELSE LET results == search(e, 6, 0)
                 found   == research_pages(results, 1)
                 links   == found_links(results, 200)
                 c1      == [c EXCEPT !.log = @ \o fetch_calls(results, 1)]
             IN  Set(Set(Set(Set(c1, "web_results", results),
                   "web_context",
                   join(<<"\n", "\n">>,
                        [i \in 1..Len(found) |->
                           <<"[">> \o found[i].title \o <<"]", ":", "\n">>
                             \o prefix(found[i].content, 2000)])),
                   "links", links),
                   "sources", title_url(links))

AnalysisSearchNode_search(c0, e) ==
  LET c == Call(Enter(c0, "search"), "search_tool.search")
  IN  IF e.kind = "raise"
        THEN Set(Set(Set(c, "web_context", <<>>), "links", <<>>), "sources", <<>>)
        ELSE LET results == search(e, 6, 0)
                 found   == research_pages(results, 1)
                 links   == found_links(results, 200)
                 c1      == [c EXCEPT !.log = @ \o fetch_calls(results, 1)]
             IN  Set(Set(Set(Set(c1, "web_results", results),
                   "web_context",
                   join(<<"\n", "\n">>,
                        [i \in 1..Len(found) |->
                           <<"[">> \o found[i].title \o <<"]", ":", "\n">>
                             \o prefix(found[i].content, 2000)])),
                   "links", links),
                   "sources", title_url(links))

AnalysisProcessNode_analyze(c0, reply, fu) ==
  LET c == Call(Enter(c0, "analyze"), "llm.invoke")
  IN  IF ~reply.ok THEN Throw(c)
      ELSE LET c1 == Call(Set(c, "answer", reply.content), "followup.generate")
           IN  IF ~fu.ok THEN Throw(c1)
               ELSE Set(c1, "followups", followup_generate(fu))

(***************************************************************************)
(* rag/agents.py: the nodes of the Summarize pipeline.                     *)
(***************************************************************************)
Http ==
  <<"h", "t", "t", "p">>

Source_URL ==
  <<"S", "o", "u", "r", "c", "e", " ", "U", "R", "L">>

Source_title ==
  <<"S", "o", "u", "r", "c", "e">>

COULD_NOT_FIND ==
  <<"C", "o", "u", "l", "d", " ", "n", "o", "t", " ", "f", "i", "n", "d", " ",
    "c", "o", "n", "t", "e", "n", "t", " ", "t", "o", " ", "s", "u", "m", "m",
    "a", "r", "i", "z", "e", ".">>

\* the texts of the results that have a url and text, each cut at 1500
\* characters
found_texts(results) ==
  LET found == research_pages(results, 1)
  IN  [i \in 1..Len(found) |-> prefix(found[i].content, 1500)]

SummarizeInputNode_process_input(c0, e) ==
  LET c     == Enter(c0, "input")
      query == Get(c.st, "query", <<>>)
  IN  IF startswith(query, Http)
        THEN LET content == fetch_clean(query)
                 c1      == Call(Set(c, "is_url", TRUE), "browse_tool.fetch_clean")
             IN  Set(Set(Set(c1, "content", content),
                   "links", <<[title |-> Source_title, url |-> query,
                               snippet |-> prefix(content, 200)]>>),
                   "sources", <<[title |-> Source_URL, url |-> query]>>)
        ELSE LET c1 == Call(Set(c, "is_url", FALSE), "search_tool.search")
             IN  IF e.kind = "raise"
                   THEN Set(Set(Set(c1, "content", query), "links", <<>>), "sources", <<>>)
                   ELSE LET results == search(e, 3, 0)
                            links   == found_links(results, 150)
                        IN  Set(Set(Set([c1 EXCEPT !.log = @ \o fetch_calls(results, 1)],
                              "content", join(<<"\n", "\n">>, found_texts(results))),
                              "links", links),
                              "sources", title_url(links))

\* SummarizeProcessNode.summarize; sm and fu are the outcomes of the backend
\* calls of summarizer.summarize and followup.generate
SummarizeProcessNode_summarize(c0, sm, fu) ==
  LET c  == Enter(c0, "summarize")
      c1 == IF truthy(Get(c.st, "content", <<>>))
              THEN LET cs == Call(c, "summarizer.summarize")
                   IN  IF ~sm.ok THEN Throw(cs) ELSE Set(cs, "answer", sm.content)
              ELSE Set(c, "answer", COULD_NOT_FIND)
  IN  IF c1.err THEN c1
      ELSE LET c2 == Call(c1, "followup.generate")
           IN  IF ~fu.ok THEN Throw(c2) ELSE Set(c2, "followups", followup_generate(fu))

(***************************************************************************)
(* tools/memory_tool.py and tools/name_tool.py.                            *)
(***************************************************************************)
\* MemoryTool.add on one history shared by the workspaces
memory_add_shared(store, workspace_id, role, content) ==
  [id \in DOMAIN store \cup {workspace_id} |->
     Append(Get(store, id, <<>>), [role |-> role, content |-> content])]

\* MemoryTool.add: the store afterwards
memory_add(store, workspace_id, role, content) ==
  Put(store, workspace_id,
      Append(Get(store, workspace_id, <<>>), [role |-> role, content |-> content]))

\* MemoryTool.get_long_chat
get_long_chat(store, workspace_id) == Get(store, workspace_id, <<>>)

\* MemoryTool.set_name that keeps the name stored first
set_name_keep_first(profile, workspace_id, name) ==
  IF workspace_id \in DOMAIN profile THEN profile
  ELSE Put(profile, workspace_id, [name |-> name])

\* MemoryTool.set_name: the profile afterwards
set_name(profile, workspace_id, name) == Put(profile, workspace_id, [name |-> name])

\* MemoryTool.get_name
get_name(profile, workspace_id) ==
  IF workspace_id \in DOMAIN profile THEN profile[workspace_id].name ELSE None

\* [a-zA-Z]
isalpha(c) == c \in DOMAIN UpperToLower \/ \E u \in DOMAIN UpperToLower : UpperToLower[u] = c

upper_char(c) ==
  IF \E u \in DOMAIN UpperToLower : UpperToLower[u] = c
    THEN CHOOSE u \in DOMAIN UpperToLower : UpperToLower[u] = c
    ELSE c

\* str.title() of one word
title(word) ==
  IF word = <<>> THEN <<>> ELSE <<upper_char(word[1])>> \o lower(Tail(word))

\* the end of the run of letters that starts at i
RECURSIVE letters_end(_, _)
letters_end(s, i) ==
  IF i <= Len(s) /\ isalpha(s[i]) THEN letters_end(s, i + 1) ELSE i

\* re.search(lead + "([a-zA-Z]+)", text): the group of the leftmost match,
\* or None
name_after(text, lead) ==
  LET at == { i \in 1..Len(text) :
                /\ i + Len(lead) <= Len(text)
                /\ SubSeq(text, i, i + Len(lead) - 1) = lead
                /\ isalpha(text[i + Len(lead)]) }
  IN  IF at = {} THEN None
      ELSE LET from == SetMin(at) + Len(lead)
           IN  SubSeq(text, from, letters_end(text, from) - 1)

\* the leads of the patterns of extract_name
name_patterns ==
  << <<"i", " ", "a", "m", " ">>,
     <<"i", "'", "m", " ">>,
     <<"m", "y", " ", "n", "a", "m", "e", " ", "i", "s", " ">> >>

\* the first pattern from the k-th on that matches gives the name
RECURSIVE extract_from(_, _)
extract_from(text, k) ==
  IF k > Len(name_patterns) THEN None
  ELSE IF name_after(text, name_patterns[k]) # None
    THEN title(strip(name_after(text, name_patterns[k])))
    ELSE extract_from(text, k + 1)

\* NameTool.extract_name
extract_name(text) == extract_from(lower(text), 1)

(***************************************************************************)
(* app/api.py: the helpers of the handlers.                                *)
(***************************************************************************)
\* the image search adapter answers with images or, on an error, with none
Image(n) == [title |-> Title(n), thumbnail_url |-> Url(n), content_url |-> Url(n)]

\* ChatResponse(answer=..., workspace_id=...) with the defaults of the model
ChatResponse(answer, ws) ==
  [answer |-> answer, sources |-> <<>>, links |-> <<>>, images |-> <<>>,
   followups |-> <<>>, default_tab |-> "answer", workspace_id |-> ws]

\* config/system_prompt.py, by name
PPLX_SYSTEM_PROMPT ==
  <<"s", "y", "s", "t", "e", "m", " ", "p", "r", "o", "m", "p", "t">>

\* build_context: the messages given to the backend
build_context(store, ws, new_msg) ==
  <<[role |-> "system", content |-> PPLX_SYSTEM_PROMPT]>>
    \o [i \in 1..Len(get_long_chat(store, ws)) |->
          [role |-> get_long_chat(store, ws)[i].role,
           content |-> get_long_chat(store, ws)[i].content]]
    \o <<[role |-> "user", content |-> new_msg]>>

\* guess_default_tab: image_words
tab_image_words ==
  << <<"i", "m", "a", "g", "e">>,
     <<"i", "m", "a", "g", "e", "s">>,
     <<"p", "h", "o", "t", "o">>,
     <<"p", "h", "o", "t", "o", "s">>,
     <<"p", "i", "c", "t", "u", "r", "e">>,
     <<"p", "i", "c", "t", "u", "r", "e", "s">>,
     <<"w", "a", "l", "l", "p", "a", "p", "e", "r">>,
     <<"l", "o", "g", "o">>,
     <<"f", "l", "a", "g">>,
     <<"s", "c", "r", "e", "e", "n", "s", "h", "o", "t">>,
     <<"p", "i", "c">> >>

guess_default_tab(query, mode) ==
  IF contains(query, tab_image_words) THEN "images"
  ELSE IF mode = M_web THEN "links"
  ELSE "answer"

Default_link_title ==
  <<"R", "e", "s", "u", "l", "t">>

\* convert_links from the n-th result on
RECURSIVE convert_links_from(_, _)
convert_links_from(results, n) ==
  IF n > Len(results) THEN <<>>
  ELSE LET r   == results[n]
           url == Get(r, "url", None)
       IN  (IF ~truthy(url) THEN <<>>
            ELSE <<[title |-> Get(r, "title", Default_link_title), url |-> url,
                    snippet |-> prefix(IF truthy(Get(r, "content", None)) THEN r.content ELSE <<>>, 200)]>>)
           \o convert_links_from(results, n + 1)

convert_links(results) == convert_links_from(results, 1)

\* the outcome of a handler: the stores afterwards, the pipeline tag it
\* routed to, the nodes and calls it made, and the response or the exception
Outcome(store, profile, files, mode, log, resp) ==
  [store |-> store, profile |-> profile, fm |-> files, mode |-> mode, log |-> log, resp |-> resp]

(***************************************************************************)
(* app/api.py: chat (/api/chat).  A branch gives what the handler has when *)
(* the branch ends; e holds the outcomes of the adapters it calls.  The    *)
(* prompts are left out: the reply of the backend is drawn freely.         *)
(***************************************************************************)
Branch(files, log, answer, links, sources, follow, err) ==
  [fm |-> files, log |-> log, answer |-> answer, links |-> links, sources |-> sources,
   follow |-> follow, err |-> err]

\* answer = llm.invoke(msgs).content; follow = followup.generate(answer, q):
\* the log afterwards
generate_log(log, e) ==
  log \o <<"build_context", "llm.invoke">> \o (IF e.llm.ok THEN <<"followup.generate">> ELSE <<>>)

generate_fails(e) == ~e.llm.ok \/ ~e.fu.ok

chat_llm(M, ws, q, e) ==
  IF generate_fails(e)
    THEN Branch(M.fm, generate_log(<<>>, e), <<>>, <<>>, <<>>, <<>>, TRUE)
    ELSE Branch(M.fm, generate_log(<<>>, e) \o <<"search_tool.search">>, e.llm.content,
                IF e.search.kind = "raise" THEN <<>> ELSE convert_links(search(e.search, 3, 0)),
                <<>>, followup_generate(e.fu), FALSE)

Here_are_images ==
  <<"H", "e", "r", "e", " ", "a", "r", "e", " ", "i", "m", "a", "g", "e", "s",
    " ", "r", "e", "l", "a", "t", "e", "d", " ", "t", "o", " ", "'">>

Showing_images ==
  <<"S", "h", "o", "w", "i", "n", "g", " ", "i", "m", "a", "g", "e", "s", " ",
    "f", "o", "r", ":", " ">>

chat_image(M, ws, q, e) ==
  IF e.search.kind = "raise"
    THEN Branch(M.fm, <<"search_tool.search">>, Showing_images \o q, <<>>, <<>>, <<>>, FALSE)
    ELSE LET res == search(e.search, 3, 0)
             ctx == IF res # <<>> THEN Get(res[1], "snippet", <<>>) ELSE <<>>
         IN  Branch(M.fm, <<"search_tool.search">>,
                    Here_are_images \o q \o <<"'", ".">>
                      \o (IF truthy(ctx) THEN <<"\n", "\n">> \o ctx ELSE <<>>),
                    convert_links(res), <<>>, <<>>, FALSE)

\* chat, rag branch: use_file_rag
file_words ==
  << <<"s", "u", "m", "m", "a", "r", "i", "z", "e">>,
     <<"a", "c", "c", "o", "r", "d", "i", "n", "g", " ", "t", "o">>,
     <<"i", "n", " ", "t", "h", "i", "s", " ", "p", "d", "f">>,
     <<"i", "n", " ", "t", "h", "e", " ", "d", "o", "c", "u", "m", "e", "n", "t">>,
     <<"b", "a", "s", "e", "d", " ", "o", "n", " ", "t", "h", "e", " ", "f", "i",
       "l", "e">>,
     <<"r", "e", "a", "d", " ", "m", "y">>,
     <<"e", "x", "t", "r", "a", "c", "t", " ", "f", "r", "o", "m">>,
     <<"u", "p", "l", "o", "a", "d", "e", "d">>,
     <<"t", "h", "i", "s", " ", "f", "i", "l", "e">>,
     <<"t", "h", "e", " ", "f", "i", "l", "e">>,
     <<"m", "y", " ", "f", "i", "l", "e">>,
     <<"f", "r", "o", "m", " ", "f", "i", "l", "e">> >>

\* chat, rag branch: use_web
web_words ==
  << <<"t", "o", "d", "a", "y">>,
     <<"l", "a", "t", "e", "s", "t">>,
     <<"c", "u", "r", "r", "e", "n", "t">>,
     <<"n", "e", "w", "s">>,
     <<"s", "t", "o", "c", "k">>,
     <<"p", "r", "i", "c", "e">>,
     <<"r", "e", "a", "l", "-", "t", "i", "m", "e">>,
     <<"w", "e", "a", "t", "h", "e", "r">>,
     <<"w", "h", "o", " ", "i", "s">>,
     <<"w", "h", "a", "t", " ", "i", "s">>,
     <<"w", "h", "e", "r", "e", " ", "i", "s">>,
     <<"w", "h", "e", "n">>,
     <<"h", "o", "w", " ", "m", "u", "c", "h">>,
     <<"c", "o", "m", "p", "a", "r", "e">> >>

\* chat, rag branch: use_images
look_words ==
  << <<"i", "m", "a", "g", "e">>,
     <<"i", "m", "a", "g", "e", "s">>,
     <<"l", "o", "g", "o">>,
     <<"f", "l", "a", "g">>,
     <<"p", "h", "o", "t", "o", "s">>,
     <<"l", "o", "o", "k", " ", "l", "i", "k", "e">>,
     <<"p", "i", "c", "t", "u", "r", "e">>,
     <<"s", "h", "o", "w", " ", "m", "e">>,
     <<"w", "a", "l", "l", "p", "a", "p", "e", "r">>,
     <<"s", "c", "r", "e", "e", "n", "s", "h", "o", "t">> >>

Uploaded_File ==
  <<"U+1F4C4", " ", "U", "p", "l", "o", "a", "d", "e", "d", " ", "F", "i",
    "l", "e">>

use_file_rag(q) == contains(q, file_words) \/ Len(split(q)) > 2

use_web(q) == contains(q, web_words)

use_images(q) == contains(q, look_words)

\* the pages of the results that have a url and text, contents cut at n
\* characters
found_pages(results, n) ==
  LET found == research_pages(results, 1)
  IN  [i \in 1..Len(found) |->
         [title |-> found[i].title, url |-> found[i].url, content |-> prefix(found[i].content, n)]]

chat_rag(M, ws, q, e) ==
  LET fm1     == get_workspace(M.fm, ws)
      ws_obj  == fm1[ws]
      reads   == use_file_rag(q) /\ ws_obj.initialized
      log1    == <<"file_manager.get_workspace">> \o (IF reads THEN <<"ws.retrieve">> ELSE <<>>)
  IN  IF reads /\ e.retr.kind = "raise"
        THEN Branch(fm1, log1, <<>>, <<>>, <<>>, <<>>, TRUE)
      ELSE IF e.docs.kind = "raise"
        THEN Branch(fm1, log1 \o <<"vector.retrieve">>, <<>>, <<>>, <<>>, <<>>, TRUE)
      ELSE
        LET file_chunks == IF reads THEN FileWorkspace_retrieve(ws_obj, e.retr) ELSE <<>>
            base_chunks == rerank(e.docs.value, 3)
            searched    == use_web(q) /\ e.search.kind # "raise"
            web_results == IF searched THEN search(e.search, 4, 0) ELSE <<>>
            web_pages   == found_pages(web_results, 1500)
            log2 == log1 \o <<"vector.retrieve", "reranker.rerank">>
                      \o (IF use_web(q) THEN <<"search_tool.search">> ELSE <<>>)
                      \o fetch_calls(web_results, 1)
                      \o (IF use_images(q) THEN <<"image_search.search">> ELSE <<>>)
        IN  IF generate_fails(e)
              THEN Branch(fm1, generate_log(log2, e), <<>>, <<>>, <<>>, <<>>, TRUE)
              ELSE Branch(fm1, generate_log(log2, e), e.llm.content,
                          convert_links(web_results),
                          [i \in 1..Len(file_chunks) |->
                             [title |-> Get(file_chunks[i].metadata, "source", Uploaded_File),
                              url |-> Get(file_chunks[i].metadata, "file_path", <<>>)]]
                            \o title_url(web_pages),
                          followup_generate(e.fu), FALSE)

chat_web(M, ws, q, e) ==
  IF e.search.kind = "raise"
    THEN Branch(M.fm, <<"search_tool.search">>, <<>>, <<>>, <<>>, <<>>, TRUE)
    ELSE LET res   == search(e.search, 5, 0)
             pages == found_pages(res, 2000)
             log1  == <<"search_tool.search">> \o fetch_calls(res, 1)
         IN  IF generate_fails(e)
               THEN Branch(M.fm, generate_log(log1, e), <<>>, <<>>, <<>>, <<>>, TRUE)
               ELSE Branch(M.fm, generate_log(log1, e), e.llm.content,
                           [i \in 1..Len(pages) |->
                              [title |-> pages[i].title, url |-> pages[i].url,
                               snippet |-> prefix(pages[i].content, 200)]],
                           title_url(pages), followup_generate(e.fu), FALSE)

\* the branch "Fallback -> LLM" of every other mode
chat_fallback(M, ws, q, e) ==
  IF generate_fails(e)
    THEN Branch(M.fm, generate_log(<<>>, e), <<>>, <<>>, <<>>, <<>>, TRUE)
    ELSE Branch(M.fm, generate_log(<<>>, e), e.llm.content, <<>>, <<>>, followup_generate(e.fu), FALSE)

chat_branch(M, ws, q, mode, e) ==
  CASE mode = M_llm   -> chat_llm(M, ws, q, e)
    [] mode = M_image -> chat_image(M, ws, q, e)
    [] mode = M_rag   -> chat_rag(M, ws, q, e)
    [] mode = M_web   -> chat_web(M, ws, q, e)
    [] OTHER          -> chat_fallback(M, ws, q, e)

Nice_to_meet_you ==
  <<"N", "i", "c", "e", " ", "t", "o", " ", "m", "e", "e", "t", " ", "y", "o",
    "u", ",", " ">>

Ill_remember ==
  <<"!", " ", "I", "U+2019", "l", "l", " ", "r", "e", "m", "e", "m", "b", "e",
    "r", " ", "y", "o", "u", "r", " ", "n", "a", "m", "e", ".">>

Your_name_is ==
  <<"Y", "o", "u", "r", " ", "n", "a", "m", "e", " ", "i", "s", " ">>

Smile ==
  <<" ", "U+1F60A">>

Not_told ==
  <<"Y", "o", "u", " ", "h", "a", "v", "e", "n", "U+2019", "t", " ", "t", "o",
    "l", "d", " ", "m", "e", " ", "y", "o", "u", "r", " ", "n", "a", "m", "e",
    " ", "y", "e", "t", ".">>

name_questions ==
  << <<"t", "e", "l", "l", " ", "m", "e", " ", "m", "y", " ", "n", "a", "m", "e">>,
     <<"w", "h", "a", "t", " ", "i", "s", " ", "m", "y", " ", "n", "a", "m", "e">> >>

\* chat from "Routing" on; store holds the user's message already
chat_routed(M, ws, q, e) ==
  LET routed == route(q, e.classifier)
  IN  IF routed.kind = "raise"
        THEN Outcome(M.store, M.profile, M.fm, None, <<"memory.add user", "router.route">>, Raise)
        ELSE LET mode == routed.value
                 b    == chat_branch(M, ws, q, mode, e)
                 log  == <<"memory.add user", "router.route">> \o b.log
             IN  IF b.err THEN Outcome(M.store, M.profile, b.fm, mode, log, Raise)
                 ELSE Outcome(memory_add(M.store, ws, "assistant", b.answer), M.profile, b.fm,
                              mode, log \o <<"image_search.search", "memory.add assistant">>,
                              Return([answer |-> b.answer, sources |-> b.sources,
                                      links |-> b.links, images |-> e.images,
                                      followups |-> b.follow,
                                      default_tab |-> guess_default_tab(q, mode),
                                      workspace_id |-> ws]))

chat(M0, ws, message, e) ==
  LET q == strip(message)
      M == [M0 EXCEPT !.store = memory_add(@, ws, "user", q)]
      extracted == extract_name(q)
  IN  IF extracted # None
        THEN LET reply == Nice_to_meet_you \o extracted \o Ill_remember
             IN  Outcome(memory_add(M.store, ws, "assistant", reply),
                         set_name(M.profile, ws, extracted), M.fm, None,
                         <<"memory.add user", "memory.set_name", "memory.add assistant">>,
                         Return(ChatResponse(reply, ws)))
      ELSE IF in_list(lower(q), name_questions)
        THEN LET nm  == get_name(M.profile, ws)
                 ans == IF truthy(nm) THEN Your_name_is \o nm \o Smile ELSE Not_told
             IN  Outcome(memory_add(M.store, ws, "assistant", ans), M.profile, M.fm, None,
                         <<"memory.add user", "memory.get_name", "memory.add assistant">>,
                         Return(ChatResponse(ans, ws)))
      ELSE chat_routed(M, ws, q, e)

(***************************************************************************)
(* app/api.py: summarize_mode (/api/summarize).  e.sm[k] and e.fu[k] are   *)
(* the outcomes of the backend calls of summarizer.summarize and           *)
(* followup.generate in step k of the handler.  The log holds the calls of *)
(* the handler and the except clauses it entered, by what they print.      *)
(***************************************************************************)
\* the prefix of a document source's title, api.py:798
Api_FileIcon ==
  <<"U+1F4C4", " ">>

Error_generating_summary ==
  <<"E", "r", "r", "o", "r", " ", "g", "e", "n", "e", "r", "a", "t", "i", "n",
    "g", " ", "s", "u", "m", "m", "a", "r", "y", ":", " ">>

\* str(e) of the exception of a failed backend call
Backend_error ==
  <<"b", "a", "c", "k", "e", "n", "d", " ", "e", "r", "r", "o", "r">>

\* str(e) of the exception of a failed search
Search_error ==
  <<"s", "e", "a", "r", "c", "h", " ", "e", "r", "r", "o", "r">>

\* the sources of the chunks: one per distinct metadata source, in order of
\* first appearance
RECURSIVE file_sources(_, _, _)
file_sources(chunks, n, seen) ==
  IF n > Len(chunks) THEN <<>>
  ELSE LET fname == Get(chunks[n].metadata, "source", Default_source)
       IN  IF fname \in seen THEN file_sources(chunks, n + 1, seen)
           ELSE <<[title |-> Api_FileIcon \o fname, url |-> <<>>]>>
                  \o file_sources(chunks, n + 1, seen \cup {fname})

Summary(M, ws, log, summary, sources, links, follow) ==
  Outcome(memory_add(M.store, ws, "assistant", summary), M.profile, M.fm, None,
          Append(log, "memory.add assistant"),
          Return([answer |-> summary, sources |-> sources, links |-> links, images |-> <<>>,
                  followups |-> follow, default_tab |-> "answer", workspace_id |-> ws]))

\* STEP 3: fall back to web search and summarize
summarize_search(M, ws, q, e, log0) ==
  LET log1 == Append(log0, "search_tool.search")
      failed(log, text) ==
        Outcome(M.store, M.profile, M.fm, None, log,
                Return(ChatResponse(Error_generating_summary \o text, ws)))
  IN  IF e.search.kind = "raise" THEN failed(Append(log1, "except: Summarize error"), Search_error)
      ELSE
        LET results == search(e.search, 3, 0)
            fetched == [i \in 1..Len(results) |-> fetch_clean(Get(results[i], "url", <<>>))]
            kept    == { i \in 1..Len(results) : truthy(fetched[i]) }
            content_parts == pick([i \in 1..Len(results) |-> prefix(fetched[i], 1500)], kept, 1)
            links   == pick([i \in 1..Len(results) |->
                               [title |-> Get(results[i], "title", <<>>),
                                url |-> Get(results[i], "url", <<>>),
                                snippet |-> prefix(fetched[i], 150)]], kept, 1)
            log2    == log1 \o [i \in 1..Len(results) |-> "browse_tool.fetch_clean"]
            log3    == IF content_parts # <<>> THEN Append(log2, "summarizer.summarize") ELSE log2
        IN  IF content_parts # <<>> /\ ~e.sm[3].ok
              THEN failed(Append(log3, "except: Summarize error"), Backend_error)
            ELSE IF ~e.fu[3].ok
              THEN failed(log3 \o <<"followup.generate", "except: Summarize error">>, Backend_error)
            ELSE Summary(M, ws, Append(log3, "followup.generate"),
                         IF content_parts # <<>> THEN e.sm[3].content ELSE COULD_NOT_FIND,
                         title_url(links), links, followup_generate(e.fu[3]))

\* STEP 2: the query is a URL
summarize_url(M, ws, q, e, log0) ==
  IF ~startswith(q, Http) THEN summarize_search(M, ws, q, e, log0)
  ELSE
    LET content == fetch_clean(q)
        log1    == Append(log0, "browse_tool.fetch_clean")
    IN  IF ~truthy(content) THEN summarize_search(M, ws, q, e, log1)
        ELSE IF ~e.sm[2].ok
          THEN summarize_search(M, ws, q, e,
                                log1 \o <<"summarizer.summarize", "except: URL fetch error">>)
        ELSE IF ~e.fu[2].ok
          THEN summarize_search(M, ws, q, e,
                                log1 \o <<"summarizer.summarize", "followup.generate",
                                          "except: URL fetch error">>)
        ELSE Summary(M, ws, log1 \o <<"summarizer.summarize", "followup.generate">>,
                     e.sm[2].content,
                     <<[title |-> Source_URL, url |-> q]>>,
                     <<[title |-> Source_title, url |-> q, snippet |-> prefix(content, 200)]>>,
                     followup_generate(e.fu[2]))

\* summarize_mode without STEP 2: a URL is searched for like any other query
summarize_mode_no_url_step(M0, ws, message, e) ==
  LET q == strip(message)
      M == [M0 EXCEPT !.store = memory_add(@, ws, "user", q), !.fm = get_workspace(@, ws)]
  IN  summarize_search(M, ws, q, e, <<"memory.add user", "file_manager.get_workspace">>)

\* STEP 1: the uploaded files first
summarize_mode(M0, ws, message, e) ==
  LET q      == strip(message)
      M      == [M0 EXCEPT !.store = memory_add(@, ws, "user", q), !.fm = get_workspace(@, ws)]
      ws_obj == M.fm[ws]
      log0   == <<"memory.add user", "file_manager.get_workspace">>
  IN  IF ~(ws_obj.initialized /\ truthy(ws_obj.files))
        THEN summarize_url(M, ws, q, e, log0)
      ELSE
        LET log1 == Append(log0, "ws.retrieve")
        IN  IF e.retr.kind = "raise"
              THEN summarize_url(M, ws, q, e, Append(log1, "except: File summarize error"))
            ELSE
              LET chunks == FileWorkspace_retrieve(ws_obj, e.retr)
              IN  IF chunks = <<>> THEN summarize_url(M, ws, q, e, log1)
                  ELSE IF ~e.sm[1].ok
                    THEN summarize_url(M, ws, q, e,
                                       log1 \o <<"summarizer.summarize",
                                                 "except: File summarize error">>)
                  ELSE IF ~e.fu[1].ok
                    THEN summarize_url(M, ws, q, e,
                                       log1 \o <<"summarizer.summarize", "followup.generate",
                                                 "except: File summarize error">>)
                  ELSE Summary(M, ws, log1 \o <<"summarizer.summarize", "followup.generate">>,
                               e.sm[1].content, file_sources(chunks, 1, {}), <<>>,
                               followup_generate(e.fu[1]))

(***************************************************************************)
(* app/api.py: upload_docs (/api/upload_docs).                             *)
(***************************************************************************)
upload_extensions == <<Ext_pdf, Ext_txt, Ext_md, Ext_ppt, Ext_pptx>>

upload_docs(M0, workspace_id, files) ==
  LET fm1   == get_workspace(M0.fm, workspace_id)
      saved_paths == pick(files, { i \in 1..Len(files) :
                                     in_list(suffix(files[i].name), upload_extensions) }, 1)
      log0  == <<"file_manager.get_workspace">>
  IN  IF saved_paths = <<>>
        THEN Outcome(M0.store, M0.profile, fm1, None, log0,
                     Return([workspace_id |-> workspace_id, files |-> fm1[workspace_id].files,
                             count |-> Len(fm1[workspace_id].files), indexed |-> 0]))
        ELSE LET added == add_files(fm1[workspace_id], saved_paths)
                 fm2   == Put(fm1, workspace_id, added.ws)
                 log1  == Append(log0, "ws.add_files")
             IN  IF added.err THEN Outcome(M0.store, M0.profile, fm2, None, log1, Raise)
                 ELSE Outcome(M0.store, M0.profile, fm2, None, log1,
                              Return([workspace_id |-> workspace_id, files |-> added.ws.files,
                                      count |-> Len(added.ws.files),
                                      indexed |-> Len(saved_paths)]))

(***************************************************************************)
(* rag/graph_deep.py: SummarizeGraph.run as one call: the run when invoke  *)
(* returns or raises.                                                      *)
(***************************************************************************)
SummarizeGraph_invoke(query, e, sm, fu) ==
  LET c1 == SummarizeInputNode_process_input(Ctx([query |-> query]), e)
  IN  IF c1.err THEN c1 ELSE SummarizeProcessNode_summarize(c1, sm, fu)

(***************************************************************************)
(* rag/agents.py: the nodes of the Agentic pipeline.  The nodes that reach *)
(* the workspace store give the run and the store afterwards.              *)
(***************************************************************************)
agentic_file_words ==
  <<<<"d", "o", "c", "u", "m", "e", "n", "t">>,
    <<"f", "i", "l", "e">>,
    <<"p", "d", "f">>,
    <<"u", "p", "l", "o", "a", "d", "e", "d">>,
    <<"s", "u", "m", "m", "a", "r", "i", "z", "e", " ", "m", "y">>,
    <<"a", "c", "c", "o", "r", "d", "i", "n", "g", " ", "t", "o">>,
    <<"i", "n", " ", "t", "h", "e", " ", "f", "i", "l", "e">>,
    <<"e", "x", "t", "r", "a", "c", "t">>,
    <<"m", "y", " ", "n", "o", "t", "e", "s">>>>

agentic_web_words ==
  <<<<"t", "o", "d", "a", "y">>,
    <<"c", "u", "r", "r", "e", "n", "t">>,
    <<"l", "a", "t", "e", "s", "t">>,
    <<"n", "e", "w", "s">>,
    <<"w", "e", "a", "t", "h", "e", "r">>,
    <<"s", "t", "o", "c", "k">>,
    <<"w", "h", "o", " ", "i", "s">>,
    <<"w", "h", "a", "t", " ", "i", "s">>,
    <<"w", "h", "e", "r", "e">>,
    <<"w", "h", "e", "n">>,
    <<"p", "r", "i", "c", "e">>,
    <<"l", "i", "v", "e">>,
    <<"r", "e", "c", "e", "n", "t">>,
    <<"u", "p", "d", "a", "t", "e">>>>

agentic_image_words ==
  <<<<"i", "m", "a", "g", "e">>,
    <<"p", "h", "o", "t", "o">>,
    <<"p", "i", "c", "t", "u", "r", "e">>,
    <<"l", "o", "g", "o">>,
    <<"s", "h", "o", "w", " ", "m", "e">>,
    <<"l", "o", "o", "k", " ", "l", "i", "k", "e">>,
    <<"f", "l", "a", "g">>,
    <<"s", "c", "r", "e", "e", "n", "s", "h", "o", "t">>>>

agentic_knowledge_words ==
  <<<<"e", "x", "p", "l", "a", "i", "n">>,
    <<"d", "e", "f", "i", "n", "e">>,
    <<"c", "o", "n", "c", "e", "p", "t">>,
    <<"t", "h", "e", "o", "r", "y">>,
    <<"h", "o", "w", " ", "d", "o", "e", "s">>,
    <<"w", "h", "a", "t", " ", "i", "s">>,
    <<"m", "e", "a", "n", "i", "n", "g", " ", "o", "f">>>>

\* agents.py:582, as the file holds it
FROM_YOUR_DOCUMENTS ==
  <<"U+00F0", "U+0178", "U+201C", "U+201E", " ", "F", "R", "O", "M", " ", "Y",
    "O", "U", "R", " ", "D", "O", "C", "U", "M", "E", "N", "T", "S", ":", "\n">>

\* agents.py:584
FROM_THE_WEB ==
  <<"U+00F0", "U+0178", "U+0152", " ", "F", "R", "O", "M", " ", "T", "H", "E",
    " ", "W", "E", "B", ":", "\n">>

\* agents.py:586
KNOWLEDGE_BASE ==
  <<"U+00F0", "U+0178", "U+201C", "U+0161", " ", "K", "N", "O", "W", "L", "E",
    "D", "G", "E", " ", "B", "A", "S", "E", ":", "\n">>

No_specific_context ==
  <<"N", "o", " ", "s", "p", "e", "c", "i", "f", "i", "c", " ", "c", "o", "n",
    "t", "e", "x", "t", " ", "f", "o", "u", "n", "d", ".", " ", "U", "s", "i",
    "n", "g", " ", "g", "e", "n", "e", "r", "a", "l", " ", "k", "n", "o", "w",
    "l", "e", "d", "g", "e", ".">>

ParagraphBreak ==
  <<"\n", "\n">>

AgenticPlannerNode_plan(c0) ==
  LET c     == Enter(c0, "planner")
      query == lower(Get(c.st, "query", <<>>))
  IN  Set(Set(Set(Set(c,
        "use_file", contains(query, agentic_file_words)),
        "use_web", contains(query, agentic_web_words) \/ Len(split(query)) <= 4),
        "use_images", contains(query, agentic_image_words)),
        "use_knowledge", contains(query, agentic_knowledge_words))

\* AgenticFileNode.retrieve that opens the workspace before it tests the gate
AgenticFileNode_retrieve_ungated(c0, fm, e) ==
  LET c     == Call(Enter(c0, "file_agent"), "file_manager.get_workspace")
      ws_id == Get(c.st, "workspace_id", "default")
      fm1   == get_workspace(fm, ws_id)
      ws    == fm1[ws_id]
      none  == Set(Set(c, "file_context", <<>>), "file_sources", <<>>)
  IN  IF ~Get(c.st, "use_file", FALSE) \/ ~ws.initialized THEN [ctx |-> none, fm |-> fm1]
      ELSE LET c2     == Call(c, "ws.retrieve")
               none2  == Set(Set(c2, "file_context", <<>>), "file_sources", <<>>)
               chunks == FileWorkspace_retrieve(ws, e)
           IN  IF e.kind = "raise" \/ chunks = <<>> THEN [ctx |-> none2, fm |-> fm1]
               ELSE [ctx |-> Set(Set(c2,
                       "file_context",
                         join(ParagraphBreak,
                              [i \in 1..Len(chunks) |-> chunks[i].page_content])),
                       "file_sources",
                         [i \in 1..Len(chunks) |->
                            [title |-> FileIcon \o Get(chunks[i].metadata, "source",
                                                       Default_source),
                             url |-> <<>>]]),
                     fm |-> fm1]

\* AgenticFileNode.retrieve; e is the outcome of ws.retrieve
AgenticFileNode_retrieve(c0, fm, e) ==
  LET c     == Enter(c0, "file_agent")
      none  == Set(Set(c, "file_context", <<>>), "file_sources", <<>>)
  IN  IF ~Get(c.st, "use_file", FALSE) THEN [ctx |-> none, fm |-> fm]
      ELSE LET ws_id == Get(c.st, "workspace_id", "default")
               fm1   == get_workspace(fm, ws_id)
               ws    == fm1[ws_id]
               c1    == Call(c, "file_manager.get_workspace")
               none1 == Set(Set(c1, "file_context", <<>>), "file_sources", <<>>)
           IN  IF ~ws.initialized THEN [ctx |-> none1, fm |-> fm1]
               ELSE LET c2     == Call(c1, "ws.retrieve")
                        none2  == Set(Set(c2, "file_context", <<>>), "file_sources", <<>>)
                        chunks == FileWorkspace_retrieve(ws, e)
                    IN  IF e.kind = "raise" \/ chunks = <<>> THEN [ctx |-> none2, fm |-> fm1]
                        ELSE [ctx |-> Set(Set(c2,
                                "file_context",
                                  join(ParagraphBreak,
                                       [i \in 1..Len(chunks) |-> chunks[i].page_content])),
                                "file_sources",
                                  [i \in 1..Len(chunks) |->
                                     [title |-> FileIcon \o Get(chunks[i].metadata, "source",
                                                                Default_source),
                                      url |-> <<>>]]),
                              fm |-> fm1]

\* AgenticWebNode.search; e is the outcome of search_tool.search
AgenticWebNode_search(c0, e) ==
  LET c    == Enter(c0, "web_agent")
      none(x) == Set(Set(Set(x, "web_context", <<>>), "web_sources", <<>>), "links", <<>>)
  IN  IF ~Get(c.st, "use_web", FALSE) THEN none(c)
      ELSE LET c1 == Call(c, "search_tool.search")
           IN  IF e.kind = "raise" THEN none(c1)
               ELSE LET results == search(e, 4, 0)
                        found   == research_pages(results, 1)
                        c2      == [c1 EXCEPT !.log = @ \o fetch_calls(results, 1)]
                    IN  Set(Set(Set(c2,
                          "web_context",
                            join(ParagraphBreak,
                                 [i \in 1..Len(found) |->
                                    <<"[">> \o found[i].title \o <<"]", ":", " ">>
                                      \o prefix(found[i].content, 1500)])),
                          "web_sources", title_url(found)),
                          "links", found_links(results, 150))

\* AgenticKnowledgeNode.retrieve; d is the outcome of vs.retrieve
AgenticKnowledgeNode_retrieve(c0, d) ==
  LET c == Enter(c0, "knowledge_agent")
  IN  IF ~Get(c.st, "use_knowledge", FALSE) THEN Set(c, "knowledge_context", <<>>)
      ELSE LET c1 == Call(c, "vs.retrieve")
           IN  IF d.kind = "raise" THEN Set(c1, "knowledge_context", <<>>)
               ELSE LET chunks == rerank(d.value, 3)
                    IN  Set(c1, "knowledge_context",
                            join(ParagraphBreak,
                                 [i \in 1..Len(chunks) |-> chunks[i].page_content]))

\* AgenticImageNode.search; im is the outcome of image_search.search
AgenticImageNode_search(c0, im) ==
  LET c == Enter(c0, "image_agent")
  IN  IF ~Get(c.st, "use_images", FALSE) THEN Set(c, "images", <<>>)
      ELSE LET c1 == Call(c, "image_search.search")
           IN  IF im.kind = "raise" THEN Set(c1, "images", <<>>)
               ELSE Set(c1, "images", im.value)

\* the contexts AgenticSynthesizerNode.synthesize joins
agentic_contexts(st) ==
  LET found ==
        (IF truthy(Get(st, "file_context", None))
           THEN <<FROM_YOUR_DOCUMENTS \o prefix(st["file_context"], 2500)>> ELSE <<>>)
        \o (IF truthy(Get(st, "web_context", None))
              THEN <<FROM_THE_WEB \o prefix(st["web_context"], 2500)>> ELSE <<>>)
        \o (IF truthy(Get(st, "knowledge_context", None))
              THEN <<KNOWLEDGE_BASE \o prefix(st["knowledge_context"], 1500)>> ELSE <<>>)
  IN  IF found = <<>> THEN <<No_specific_context>> ELSE found

\* AgenticSynthesizerNode.synthesize (reply and fu are the outcomes of
\* llm.invoke and of the backend call of followup.generate), here answering
\* without the backend when no context was found
AgenticSynthesizerNode_synthesize_no_fallback(c0, reply, fu) ==
  LET c  == Enter(c0, "synthesizer")
      c1 == Set(c, "combined_context", join(ContextSeparator, agentic_contexts(c.st)))
  IN  IF agentic_contexts(c.st) = <<No_specific_context>>
        THEN Set(Set(Set(c1, "answer", <<>>), "followups", <<>>), "sources", <<>>)
      ELSE LET c2 == Call(c1, "llm.invoke")
      IN  IF ~reply.ok THEN Throw(c2)
          ELSE LET c3 == Call(Set(c2, "answer", reply.content), "followup.generate")
               IN  IF ~fu.ok THEN Throw(c3)
                   ELSE Set(Set(c3, "followups", followup_generate(fu)),
                            "sources", Get(c3.st, "file_sources", <<>>)
                                         \o Get(c3.st, "web_sources", <<>>))

AgenticSynthesizerNode_synthesize(c0, reply, fu) ==
  LET c  == Enter(c0, "synthesizer")
      c1 == Set(c, "combined_context", join(ContextSeparator, agentic_contexts(c.st)))
      c2 == Call(c1, "llm.invoke")
  IN  IF ~reply.ok THEN Throw(c2)
      ELSE LET c3 == Call(Set(c2, "answer", reply.content), "followup.generate")
           IN  IF ~fu.ok THEN Throw(c3)
               ELSE Set(Set(c3, "followups", followup_generate(fu)),
                        "sources", Get(c3.st, "file_sources", <<>>)
                                     \o Get(c3.st, "web_sources", <<>>))

(***************************************************************************)
(* rag/graph_deep.py: the edges of the graphs, as build() adds them.       *)
(***************************************************************************)
\* the edges of a Deep-Research graph built without the edge into aggregate
DeepResearchGraph_edges_skip_aggregate ==
  [plan |-> "research", research |-> "write", aggregate |-> "write",
   write |-> "validate", validate |-> "END"]

DeepResearchGraph_edges ==
  [plan |-> "research", research |-> "aggregate", aggregate |-> "write",
   write |-> "validate", validate |-> "END"]

WebSearchGraph_edges ==
  [search |-> "fetch", fetch |-> "build_context", build_context |-> "answer", answer |-> "END"]

RAGOnlyGraph_edges ==
  [retrieve |-> "build_context", build_context |-> "answer", answer |-> "END"]

AnalysisGraph_edges == [search |-> "analyze", analyze |-> "END"]

SummarizeGraph_edges == [input |-> "summarize", summarize |-> "END"]

AgenticRAGGraph_edges ==
  [planner |-> "file_agent", file_agent |-> "web_agent", web_agent |-> "knowledge_agent",
   knowledge_agent |-> "image_agent", image_agent |-> "synthesizer", synthesizer |-> "END"]

(***************************************************************************)
(* rag/graph_deep.py: the runs of the other graphs as one call each: the   *)
(* run when invoke returns or raises.  e holds the outcomes of the         *)
(* adapters: e.plan, e.draft and e.llm of the backend calls of the         *)
(* planner, the aggregator and the answering node, e.fu of the follow-up   *)
(* call, e.docs, e.retr, e.search and e.img of the retrievals, the search  *)
(* and the image search.                                                   *)
(***************************************************************************)
\* the node of the Deep-Research graph applied to the run c
DeepResearchGraph_node(node, c, e) ==
  CASE node = "plan"      -> PlannerAgent_plan(c, e.plan)
    [] node = "research"  -> ResearchAgent_research(c, [docs |-> e.docs, search |-> e.search])
    [] node = "aggregate" -> AggregatorAgent_aggregate(c, e.draft)
    [] node = "write"     -> WriterAgent_write(c, e.llm)
    [] node = "validate"  -> ValidatorAgent_validate_and_attach(c)

\* graph.invoke from a node on: the nodes run along the edges until END, or
\* until one raises
RECURSIVE DeepResearchGraph_from(_, _, _)
DeepResearchGraph_from(node, c, e) ==
  IF node = "END" \/ c.err THEN c
  ELSE DeepResearchGraph_from(DeepResearchGraph_edges[node],
                              DeepResearchGraph_node(node, c, e), e)

DeepResearchGraph_invoke(question, e) ==
  DeepResearchGraph_from("plan", Ctx([question |-> question]), e)

WebSearchGraph_node(node, c, e) ==
  CASE node = "search"        -> WebSearchNode_search(c, e.search)
    [] node = "fetch"         -> WebFetchNode_fetch(c)
    [] node = "build_context" -> WebContextNode_build_context(c)
    [] node = "answer"        -> WebAnswerNode_answer(c, e.llm, e.fu)

RECURSIVE WebSearchGraph_from(_, _, _)
WebSearchGraph_from(node, c, e) ==
  IF node = "END" \/ c.err THEN c
  ELSE WebSearchGraph_from(WebSearchGraph_edges[node], WebSearchGraph_node(node, c, e), e)

WebSearchGraph_invoke(query, e) == WebSearchGraph_from("search", Ctx([query |-> query]), e)

\* the run and the workspace store afterwards
RAGOnlyGraph_invoke(fm, query, workspace_id, e) ==
  LET r1 == RAGRetrieveNode_retrieve(Ctx([query |-> query, workspace_id |-> workspace_id]),
                                     fm, e.retr)
      c2 == IF r1.ctx.err THEN r1.ctx ELSE RAGContextNode_build_context(r1.ctx)
  IN  [ctx |-> IF c2.err THEN c2 ELSE RAGAnswerNode_answer(c2, e.llm, e.fu), fm |-> r1.fm]

AgenticRAGGraph_invoke(fm, query, workspace_id, e) ==
  LET c1 == AgenticPlannerNode_plan(Ctx([query |-> query, workspace_id |-> workspace_id]))
      r2 == AgenticFileNode_retrieve(c1, fm, e.retr)
      c3 == AgenticWebNode_search(r2.ctx, e.search)
      c4 == AgenticKnowledgeNode_retrieve(c3, e.docs)
      c5 == AgenticImageNode_search(c4, e.img)
  IN  [ctx |-> AgenticSynthesizerNode_synthesize(c5, e.llm, e.fu), fm |-> r2.fm]

AnalysisGraph_invoke(query, e) ==
  LET c1 == AnalysisSearchNode_search(Ctx([query |-> query]), e.search)
  IN  IF c1.err THEN c1 ELSE AnalysisProcessNode_analyze(c1, e.llm, e.fu)

(***************************************************************************)
(* app/api.py: the mode endpoints.  The log of a handler holds its calls   *)
(* of the memory, the nodes and the calls of the pipeline it runs, and its *)
(* other calls, in order.                                                  *)
(***************************************************************************)
No_answer_generated ==
  <<"N", "o", " ", "a", "n", "s", "w", "e", "r", " ", "g", "e", "n", "e", "r",
    "a", "t", "e", "d", ".">>

No_analysis_generated ==
  <<"N", "o", " ", "a", "n", "a", "l", "y", "s", "i", "s", " ", "g", "e", "n",
    "e", "r", "a", "t", "e", "d", ".">>

Something_went_wrong ==
  <<"S", "o", "m", "e", "t", "h", "i", "n", "g", " ", "w", "e", "n", "t", " ",
    "w", "r", "o", "n", "g", " ", "i", "n", " ", "d", "e", "e", "p", " ", "r",
    "e", "s", "e", "a", "r", "c", "h", " ", "m", "o", "d", "e", ".">>

Workspace_ ==
  <<"W", "o", "r", "k", "s", "p", "a", "c", "e", " ", "'">>

_cleared ==
  <<"'", " ", "c", "l", "e", "a", "r", "e", "d">>

\* the handler of a mode endpoint ends: the exception of the pipeline leaves
\* it, or it appends the answer and returns the response
ModeResponse(M, files, ws, log, c, answer, links, images, follow) ==
  IF c.err THEN Outcome(M.store, M.profile, files, None, log \o c.log, Raise)
  ELSE Outcome(memory_add(M.store, ws, "assistant", answer), M.profile, files, None,
               log \o c.log \o (IF images.called THEN <<"image_search.search">> ELSE <<>>)
                   \o <<"memory.add assistant">>,
               Return([answer |-> answer, sources |-> Get(c.st, "sources", <<>>),
                       links |-> links, images |-> images.value, followups |-> follow,
                       default_tab |-> "answer", workspace_id |-> ws]))

\* tavily_images_safe(q), and no call of it
Images(e) == [called |-> TRUE, value |-> IF e.img.kind = "raise" THEN <<>> ELSE e.img.value]

NoImages == [called |-> FALSE, value |-> <<>>]

\* /api/deep_research
deep_research(M0, ws, message, e) ==
  LET q       == message
      M       == [M0 EXCEPT !.store = memory_add(@, ws, "user", q)]
      c       == DeepResearchGraph_invoke(q, e)
      answer  == IF c.err THEN Something_went_wrong
                 ELSE Get(c.st, "final_answer", No_answer_generated)
      sources == IF c.err THEN <<>> ELSE Get(c.st, "sources", <<>>)
      store1  == memory_add(M.store, ws, "assistant", answer)
      log     == <<"memory.add user">> \o c.log
                   \o (IF c.err THEN <<"except: Deep research error">> ELSE <<>>)
                   \o <<"memory.add assistant", "image_search.search", "followup.generate">>
  IN  IF ~e.fu.ok THEN Outcome(store1, M.profile, M.fm, None, log, Raise)
      ELSE Outcome(store1, M.profile, M.fm, None, log,
                   Return([answer |-> answer, sources |-> sources, links |-> <<>>,
                           images |-> Images(e).value, followups |-> followup_generate(e.fu),
                           default_tab |-> "answer", workspace_id |-> ws]))

\* /api/web
web_search_mode(M0, ws, message, e) ==
  LET q == strip(message)
      M == [M0 EXCEPT !.store = memory_add(@, ws, "user", q)]
      c == WebSearchGraph_invoke(q, e)
  IN  ModeResponse(M, M.fm, ws, <<"memory.add user">>, c,
                   Get(c.st, "answer", No_answer_generated), Get(c.st, "links", <<>>),
                   Images(e), Get(c.st, "followups", <<>>))

\* /api/rag
rag_mode(M0, ws, message, e) ==
  LET q == strip(message)
      M == [M0 EXCEPT !.store = memory_add(@, ws, "user", q)]
      r == RAGOnlyGraph_invoke(M.fm, q, ws, e)
  IN  ModeResponse(M, r.fm, ws, <<"memory.add user">>, r.ctx,
                   Get(r.ctx.st, "answer", No_answer_generated), <<>>, NoImages,
                   Get(r.ctx.st, "followups", <<>>))

\* /api/agentic
agentic_mode(M0, ws, message, e) ==
  LET q == strip(message)
      M == [M0 EXCEPT !.store = memory_add(@, ws, "user", q)]
      r == AgenticRAGGraph_invoke(M.fm, q, ws, e)
  IN  ModeResponse(M, r.fm, ws, <<"memory.add user">>, r.ctx,
                   Get(r.ctx.st, "answer", No_answer_generated), Get(r.ctx.st, "links", <<>>),
                   [called |-> FALSE, value |-> Get(r.ctx.st, "images", <<>>)],
                   Get(r.ctx.st, "followups", <<>>))

\* /api/analyze
analyze_mode(M0, ws, message, e) ==
  LET q == strip(message)
      M == [M0 EXCEPT !.store = memory_add(@, ws, "user", q)]
      c == AnalysisGraph_invoke(q, e)
  IN  ModeResponse(M, M.fm, ws, <<"memory.add user">>, c,
                   Get(c.st, "answer", No_analysis_generated), Get(c.st, "links", <<>>),
                   Images(e), Get(c.st, "followups", <<>>))

\* /api/focus (/api/writing, /api/math and /api/code differ by their prompt),
\* here appending the user message after the answer was generated
focus_mode_user_message_late(M0, ws, message, e) ==
  LET q   == strip(message)
      M   == [M0 EXCEPT !.store = memory_add(@, ws, "user", q)]
      log == Append(generate_log(<<>>, e), "memory.add user")
  IN  IF generate_fails(e) THEN Outcome(M0.store, M0.profile, M0.fm, None, generate_log(<<>>, e), Raise)
      ELSE Outcome(memory_add(M.store, ws, "assistant", e.llm.content), M.profile, M.fm, None,
                   Append(log, "memory.add assistant"),
                   Return([answer |-> e.llm.content, sources |-> <<>>, links |-> <<>>,
                           images |-> <<>>, followups |-> followup_generate(e.fu),
                           default_tab |-> "answer", workspace_id |-> ws]))

focus_mode(M0, ws, message, e) ==
  LET q   == strip(message)
      M   == [M0 EXCEPT !.store = memory_add(@, ws, "user", q)]
      log == generate_log(<<"memory.add user">>, e)
  IN  IF generate_fails(e) THEN Outcome(M.store, M.profile, M.fm, None, log, Raise)
      ELSE Outcome(memory_add(M.store, ws, "assistant", e.llm.content), M.profile, M.fm, None,
                   Append(log, "memory.add assistant"),
                   Return([answer |-> e.llm.content, sources |-> <<>>, links |-> <<>>,
                           images |-> <<>>, followups |-> followup_generate(e.fu),
                           default_tab |-> "answer", workspace_id |-> ws]))

\* DELETE /api/workspace/{workspace_id}
clear_workspace(M0, workspace_id) ==
  Outcome(M0.store, M0.profile, clear_workspace_map(M0.fm, workspace_id), None,
          <<"file_manager.clear_workspace">>,
          Return([message |-> Workspace_ \o workspace_id \o _cleared]))

\* /api/chat/stream up to its return: the generator has not run yet
chat_stream(M0, ws, message) ==
  LET q == message
      M == [M0 EXCEPT !.store = memory_add(@, ws, "user", q)]
  IN  Outcome(M.store, M.profile, M.fm, None, <<"memory.add user", "build_context">>,
              Return([yielded |-> <<>>, full |-> <<>>]))

(***************************************************************************)
(* The inputs of the pipelines: what the adapters answer.                  *)
(***************************************************************************)
A_cited ==
  <<"S", "e", "e", " ", "[", "1", "]", " ", "a", "n", "d", " ", "[", "3", "]",
    ".">>

A_marks ==
  <<"[", "2", "]", "[", "1", "1", "]", "[", "0", "]">>

A_plain ==
  <<"o", "k">>

LLMAnswers == {A_cited, A_marks, A_plain, <<>>}

\* the outcomes of a call of the generation backend that answers with a text
LLMReplies == { BackendOk(a) : a \in LLMAnswers } \cup {BackendFail}

\* the outcomes of the backend calls whose answer goes into a draft or a
\* summary
DraftReplies == {BackendOk(A_plain), BackendFail}

Line_b1 ==
  <<"U+2022", " ", "o", "n", "e", "?">>

Line_b2 ==
  <<" ", "U+2022", " ", "t", "w", "o", "?", " ">>

Line_b3 ==
  <<"U+2022", " ", "t", "h", "r", "e", "e", "?">>

Line_b4 ==
  <<"U+2022", " ", "f", "o", "u", "r", "?">>

Line_b5 ==
  <<"U+2022", " ", "f", "i", "v", "e", "?">>

Line_text ==
  <<"H", "e", "r", "e", " ", "y", "o", "u", " ", "a", "r", "e", ":">>

\* the outcomes of the backend call of followup.generate, the reply by lines
FollowupReplies ==
  { BackendOk(<<<<>>>>),
    BackendOk(<<Line_text, Line_b1, Line_b2, Line_b3, Line_b4, Line_b5>>),
    BackendFail }

Line_1 ==
  <<"1", ".", " ", "f", "i", "r", "s", "t">>

Line_2 ==
  <<"2", ".", " ", "s", "e", "c", "o", "n", "d">>

Line_3 ==
  <<"-", " ", "3", ".", " ", "t", "h", "i", "r", "d">>

Line_note ==
  <<"S", "u", "b", "-", "q", "u", "e", "s", "t", "i", "o", "n", "s", ":">>

Line_blank ==
  <<" ", " ">>

Line_dash ==
  <<" ", "-", " ">>

\* the outcomes of the backend call of the planner, the reply by lines
PlannerReplies ==
  { BackendOk(<<>>),
    BackendOk(<<Line_1, Line_2, Line_3>>),
    BackendOk(<<Line_note, Line_1, Line_blank, Line_2, Line_3, Line_1>>),
    BackendOk(<<Line_note, Line_1, Line_2, Line_3, Line_1, Line_2>>),
    BackendOk(<<Line_1, Line_2, Line_3, Line_1, Line_2, Line_3>>),
    BackendOk(<<Line_1, Line_dash>>),
    BackendFail }

\* the outcomes of a search: at most MaxResults results, or an exception
SearchOutcomes ==
  { Return(ks) : ks \in UNION { [1..n -> ResultKinds] : n \in 0..MaxResults } } \cup {Raise}

\* the outcomes of vs.retrieve on the base index
DocsOutcomes ==
  { Return(<<>>), Return(<<[page_content |-> <<"d", "1">>], [page_content |-> <<"d", "2">>]>>), Raise }

\* the outcomes of a retrieval from a workspace index: the number of chunks
\* the retriever is set to give, or an exception
RetrieveOutcomes == {Return(1), Return(4), Raise}

ResearchOutcomes == { [docs |-> d, search |-> e] : d \in DocsOutcomes, e \in SearchOutcomes }

Q_topic ==
  <<"t", "o", "p", "i", "c">>

Q_url ==
  <<"h", "t", "t", "p", ":", "/", "/", "a">>

Q_dead ==
  <<"h", "t", "t", "p", ":", "/", "/", "x">>

Q_padded ==
  <<" ", "h", "t", "t", "p", ":", "/", "/", "a", "\n">>

PipelineQueries == {Q_topic, Q_url}

SummarizeQueries == {Q_topic, Q_url, Q_dead, Q_padded}

WorkspaceIds == {"w1", "w2"}

File_a ==
  <<"a", ".", "t", "x", "t">>

File_b ==
  <<"b", ".", "P", "D", "F">>

File_c ==
  <<"c", ".", "m", "d">>

File_d ==
  <<"d", ".", "e", "x", "e">>

\* the batches of an upload
UploadBatches ==
  { <<[name |-> File_a, load |-> "text"]>>,
    <<[name |-> File_b, load |-> "blank"]>>,
    <<[name |-> File_d, load |-> "nodocs"]>>,
    <<[name |-> File_b, load |-> "text"], [name |-> File_c, load |-> "error"]>>,
    <<[name |-> File_a, load |-> "text"], [name |-> File_c, load |-> "nodocs"]>> }

(***************************************************************************)
(* The inputs of the citation tool: answers made of at most MaxPieces      *)
(* pieces and the first n candidate sources, n <= MaxSources.              *)
(***************************************************************************)
AnswerPieces ==
  { <<"[", "1", "]">>,
    <<"[", "2", "]">>,
    <<"[", "3", "]">>,
    <<"[", "4", "]">>,
    <<"[", "0", "]">>,
    <<"[", "0", "2", "]">>,
    <<"[", "1", "2", "]">>,
    <<"a", " ">>,
    <<"[">>,
    <<"3", "]">>,
    <<"[", "]">> }

CiteAnswers == { concat(ps) : ps \in UNION { [1..k -> AnswerPieces] : k \in 0..MaxPieces } }

\* the n-th source a pipeline collected: {"title": ..., "url": ...}
Source(n) == [title |-> Title(n), url |-> Url(n)]

SourceLists == { [i \in 1..n |-> Source(i)] : n \in 0..MaxSources }

(***************************************************************************)
(* The inputs of the router: queries made of at most MaxPhrases phrases,   *)
(* joined by one blank, with optional leading and trailing whitespace, and *)
(* the answers of the classification backend.                              *)
(***************************************************************************)
Phrases ==
  { <<"h", "i">>,
    <<"H", "e", "l", "l", "o">>,
    <<"t", "h", "e", "r", "e">>,
    <<"t", "o", "p", "i", "c">>,
    <<"n", "o", "w">>,
    <<"c", "e", "o">>,
    <<"r", "i", "s", "k">>,
    <<"w", "h", "a", "t", " ", "i", "s">>,
    <<"D", "e", "f", "i", "n", "e">>,
    <<"R", "u", "s", "t">>,
    <<"j", "o", "k", "e">> }

LeadPads == { <<>>, <<" ">> }

TrailPads == { <<>>, <<"\n">> }

PhraseSeqs(n) == UNION { [1..k -> Phrases] : k \in 0..n }

Queries(n) ==
  { lead \o join(<<" ">>, ps) \o trail :
      lead \in LeadPads, trail \in TrailPads, ps \in PhraseSeqs(n) }

ClassifierReplies ==
  { M_web, M_rag, M_llm, M_deep_research, M_image,
    <<>>,
    <<" ", "W", "e", "b", "\n">>,
    <<"R", "A", "G">>,
    <<"w", "e", "b", " ", "r", "a", "g">>,
    <<"\"", "w", "e", "b", "\"">> }

Backends == { BackendOk(c) : c \in ClassifierReplies } \cup { BackendFail }

RouterQueries == Queries(MaxPhrases)

\* no backend call was made
NoBackend == [ok |-> TRUE, content |-> <<"-">>, unused |-> TRUE]

(***************************************************************************)
(* The inputs of the endpoints.                                            *)
(***************************************************************************)
Msg_hi ==
  <<"h", "i">>

Msg_pic ==
  <<"p", "i", "c">>

Msg_now ==
  <<" ", "n", "o", "w">>

Msg_define ==
  <<"w", "h", "a", "t", " ", "i", "s", " ", "x">>

Msg_risk ==
  <<"r", "i", "s", "k">>

Msg_joke ==
  <<"j", "o", "k", "e">>

Msg_name ==
  <<"I", " ", "a", "m", " ", "b", "o", "b">>

Msg_ask_name ==
  <<"W", "h", "a", "t", " ", "i", "s", " ", "m", "y", " ", "n", "a", "m", "e">>

ChatMessages ==
  {Msg_hi, Msg_pic, Msg_now, Msg_define, Msg_risk, Msg_joke, Msg_name, Msg_ask_name}

Lines_followups ==
  <<Line_text, Line_b1, Line_b2>>

\* what the adapters answer when nothing fails
DefaultEnv ==
  [classifier |-> NoBackend,
   llm        |-> BackendOk(A_cited),
   fu         |-> BackendOk(Lines_followups),
   search     |-> Return(<<"page", "dead", "nourl">>),
   docs       |-> Return(<<[page_content |-> <<"d", "1">>]>>),
   retr       |-> Return(4),
   images     |-> <<Image(1)>>]

ChatEnvs ==
  [classifier : {NoBackend, BackendOk(M_rag), BackendOk(M_deep_research),
                 BackendOk(<<"R", "A", "G">>), BackendFail},
   llm        : {DefaultEnv.llm, BackendFail},
   fu         : {DefaultEnv.fu, BackendFail},
   search     : {DefaultEnv.search, Return(<<>>), Raise},
   docs       : {DefaultEnv.docs, Raise},
   retr       : {DefaultEnv.retr, Raise},
   images     : {DefaultEnv.images}]

\* the adapters a chat request on message m can reach
Reached(m) ==
  LET q == strip(m)
  IN  IF extract_name(q) # None \/ in_list(lower(q), name_questions) THEN {}
      ELSE IF route_reaches_llm(q) THEN {"classifier", "llm", "fu", "search", "docs", "retr"}
      ELSE LET mode == route(q, NoBackend).value
           IN  CASE mode = M_llm   -> {"llm", "fu", "search"}
                 [] mode = M_image -> {"search"}
                 [] mode = M_rag   -> {"llm", "fu", "search", "docs", "retr"}
                 [] mode = M_web   -> {"llm", "fu", "search"}
                 [] OTHER          -> {"llm", "fu"}

\* the requests to /api/chat: a message and the outcomes of the adapters it
\* can reach, the others being left at their defaults
ChatCases ==
  { c \in [message : ChatMessages, e : ChatEnvs] :
      /\ \A k \in DOMAIN DefaultEnv \ Reached(c.message) : c.e[k] = DefaultEnv[k]
      /\ "classifier" \in Reached(c.message) => c.e.classifier # NoBackend }

\* the outcomes of the backend calls of the three steps of summarize_mode:
\* at most one step fails
StepReplies(ok) ==
  { [k \in 1..3 |-> IF k = bad THEN BackendFail ELSE ok] : bad \in 0..3 }

SummarizeCases ==
  [message : SummarizeQueries,
   e : [retr   : {Return(4), Raise},
        search : {DefaultEnv.search, Return(<<>>), Raise},
        sm     : StepReplies(BackendOk(A_plain)),
        fu     : StepReplies(BackendOk(Lines_followups))]]

\* the workspace the requests of the model name
ApiWorkspaces == {"w1"}

\* the batches of an upload request
ApiBatches ==
  { <<[name |-> File_a, load |-> "text"]>>,
    <<[name |-> File_b, load |-> "blank"]>>,
    <<[name |-> File_d, load |-> "text"]>> }

(***************************************************************************)
(* The inputs of the Agentic pipeline: queries that open no gate, one gate *)
(* or several, and what the adapters answer.                               *)
(***************************************************************************)
Q_five_words ==
  <<"t", "e", "l", "l", " ", "a", " ", "b", " ", "c", " ", "d">>

Q_my_file_logo ==
  <<"m", "y", " ", "f", "i", "l", "e", " ", "l", "o", "g", "o">>

Q_explain_pdf ==
  <<"E", "x", "p", "l", "a", "i", "n", " ", "t", "h", "e", " ", "P", "D", "F",
    " ", "t", "o", " ", "m", "e", " ", "n", "o", "w">>

Q_what_is ==
  <<"w", "h", "a", "t", " ", "i", "s", " ", "x">>

AgenticQueries == {Q_five_words, Q_topic, Q_my_file_logo, Q_explain_pdf, Q_what_is}

\* the workspace the runs of the Agentic pipeline name
AgenticWorkspaces == {"w1"}

AgenticSearchOutcomes == {Return(<<"page", "dead", "nourl">>), Return(<<>>), Raise}

ImageOutcomes == {Return(<<Image(1)>>), Return(<<>>), Raise}

AgenticReplies == {BackendOk(A_cited), BackendOk(<<>>), BackendFail}

(***************************************************************************)
(* The requests to the mode endpoints: the messages, and what the adapters *)
(* answer: everything works, or one adapter fails or finds nothing.        *)
(***************************************************************************)
Msg_logo ==
  <<" ", "l", "o", "g", "o", " ">>

ModeMessages == {Q_topic, Msg_logo, Q_explain_pdf, Q_five_words}

ModeDefaultEnv ==
  [plan   |-> BackendOk(<<Line_1, Line_2, Line_3>>),
   draft  |-> BackendOk(A_plain),
   llm    |-> BackendOk(A_cited),
   fu     |-> BackendOk(Lines_followups),
   search |-> Return(<<"page", "dead", "nourl">>),
   docs   |-> Return(<<[page_content |-> <<"d", "1">>]>>),
   retr   |-> Return(4),
   img    |-> Return(<<Image(1)>>)]

ModeEnvs ==
  { ModeDefaultEnv,
    [ModeDefaultEnv EXCEPT !.llm = BackendFail],
    [ModeDefaultEnv EXCEPT !.fu = BackendFail],
    [ModeDefaultEnv EXCEPT !.plan = BackendFail],
    [ModeDefaultEnv EXCEPT !.search = Raise],
    [ModeDefaultEnv EXCEPT !.search = Return(<<>>)],
    [ModeDefaultEnv EXCEPT !.docs = Raise],
    [ModeDefaultEnv EXCEPT !.retr = Raise],
    [ModeDefaultEnv EXCEPT !.img = Raise] }

\* what llm.stream gives: the fragments, and whether it fails after them
StreamOutcomes ==
  { [frags |-> <<>>, fails |-> FALSE],
    [frags |-> << <<"o">>, <<>>, <<"k">> >>, fails |-> FALSE],
    [frags |-> << <<"o">> >>, fails |-> TRUE] }

(***************************************************************************)
(* State.                                                                  *)
(***************************************************************************)
VARIABLES
  r_pc,       \* router call: "idle" or "done"
  r_q,        \* the query given to route
  r_backend,  \* what the classification backend did, NoBackend if not invoked
  r_out,      \* the outcome of route
  c_pc,       \* citation tool call: "idle" or "done"
  c_answer,   \* the answer given to attach_sources
  c_sources,  \* the sources given to attach_sources
  c_mapped,   \* the list attach_sources returned
  g_graph,    \* the pipeline that runs: "deep", "web", "rag", ..., or "none"
  g_pc,       \* its next node, or "END", "raised", "idle"
  g_ctx,      \* the run: state dict, nodes and calls so far, exception
  fm,         \* file_manager._workspaces: workspace id -> workspace
  memory,     \* memory.store: workspace id -> the chat history
  profile,    \* memory.profile: workspace id -> the user's metadata
  a_pc,       \* the API: "idle", or "done" when a handler has ended
  a_out,      \* the request handled last and its response or exception
  workspaces, \* file_manager._workspaces by reference: workspace id -> object
  heap,       \* the FileWorkspace objects constructed so far
  t_pc,       \* each concurrent request's position in its handler
  t_ws        \* each concurrent request's local ws: an object of heap, or 0

routerVars == <<r_pc, r_q, r_backend, r_out>>

citeVars == <<c_pc, c_answer, c_sources, c_mapped>>

graphVars == <<g_graph, g_pc, g_ctx>>

apiVars == <<memory, profile, a_pc, a_out>>

concVars == <<workspaces, heap, t_pc, t_ws>>

vars == <<routerVars, citeVars, graphVars, fm, apiVars, concVars>>

RouterInit ==
  /\ r_pc = "idle"
  /\ r_q = <<>>
  /\ r_backend = NoBackend
  /\ r_out = Return(<<>>)

\* one call of RouterAgent.route on a query that a lexical rule decides
RouteByRule(q) ==
  /\ ~route_reaches_llm(q)
  /\ r_pc' = "done"
  /\ r_q' = q
  /\ r_backend' = NoBackend
  /\ r_out' = route(q, NoBackend)

\* one call of RouterAgent.route that falls through to llm_decide
RouteByClassifier(q, b) ==
  /\ r_pc' = "done"
  /\ r_q' = q
  /\ r_backend' = b
  /\ r_out' = route(q, b)

\* the caller takes the outcome; the router is stateless between calls
RouteDone ==
  /\ r_pc = "done"
  /\ r_pc' = "idle"
  /\ r_q' = <<>>
  /\ r_backend' = NoBackend
  /\ r_out' = Return(<<>>)

RouterFrame == UNCHANGED <<citeVars, graphVars, fm, apiVars, concVars>>

RouterNext ==
  \/ (r_pc = "idle" /\ \E q \in RouterQueries : RouteByRule(q))
       /\ RouterFrame
  \/ (r_pc = "idle" /\ \E q \in RouterQueries :
                          route_reaches_llm(q) /\ \E b \in Backends : RouteByClassifier(q, b))
       /\ RouterFrame
  \/ RouteDone /\ RouterFrame

(***************************************************************************)
(* Calls of the citation tool.                                             *)
(***************************************************************************)
CiteInit ==
  /\ c_pc = "idle"
  /\ c_answer = <<>>
  /\ c_sources = <<>>
  /\ c_mapped = <<>>

\* one call of CitationTool.attach_sources
AttachSources(answer, sources) ==
  /\ c_pc' = "done"
  /\ c_answer' = answer
  /\ c_sources' = sources
  /\ c_mapped' = attach_sources(answer, sources)

\* the caller takes the list; the tool keeps nothing between calls
AttachDone ==
  /\ c_pc = "done"
  /\ c_pc' = "idle"
  /\ c_answer' = <<>>
  /\ c_sources' = <<>>
  /\ c_mapped' = <<>>

CiteFrame == UNCHANGED <<routerVars, graphVars, fm, apiVars, concVars>>

CiteNext ==
  \/ (c_pc = "idle" /\ \E a \in CiteAnswers, ss \in SourceLists : AttachSources(a, ss))
       /\ CiteFrame
  \/ AttachDone /\ CiteFrame

(***************************************************************************)
(* Runs of the pipelines, node by node (rag/graph_deep.py: run).           *)
(***************************************************************************)
IdleCtx == [st |-> <<>>, log |-> <<>>, err |-> FALSE]

GraphInit ==
  /\ g_graph = "none"
  /\ g_pc = "idle"
  /\ g_ctx = IdleCtx

StoreInit == fm = <<>>

\* graph.invoke: the entry point is next
Invoke(graph, entry, d) ==
  /\ g_pc = "idle"
  /\ g_graph' = graph
  /\ g_pc' = entry
  /\ g_ctx' = Ctx(d)

\* the node at g_pc of the graph has run and left c
Advance(graph, node, edges, c) ==
  /\ g_graph = graph
  /\ g_pc = node
  /\ g_ctx' = c
  /\ g_pc' = IF c.err THEN "raised" ELSE edges[node]
  /\ UNCHANGED g_graph

DeepResearchGraph_run == \E q \in PipelineQueries : Invoke("deep", "plan", [question |-> q])

Plan ==
  \E reply \in PlannerReplies :
    Advance("deep", "plan", DeepResearchGraph_edges, PlannerAgent_plan(g_ctx, reply))

Research ==
  \E e \in ResearchOutcomes :
    Advance("deep", "research", DeepResearchGraph_edges, ResearchAgent_research(g_ctx, e))

Aggregate ==
  \E reply \in DraftReplies :
    Advance("deep", "aggregate", DeepResearchGraph_edges, AggregatorAgent_aggregate(g_ctx, reply))

Write ==
  \E reply \in LLMReplies :
    Advance("deep", "write", DeepResearchGraph_edges, WriterAgent_write(g_ctx, reply))

Validate ==
  Advance("deep", "validate", DeepResearchGraph_edges, ValidatorAgent_validate_and_attach(g_ctx))

WebSearchGraph_run == \E q \in PipelineQueries : Invoke("web", "search", [query |-> q])

WebSearch ==
  \E e \in SearchOutcomes :
    Advance("web", "search", WebSearchGraph_edges, WebSearchNode_search(g_ctx, e))

WebFetch == Advance("web", "fetch", WebSearchGraph_edges, WebFetchNode_fetch(g_ctx))

WebBuildContext ==
  Advance("web", "build_context", WebSearchGraph_edges, WebContextNode_build_context(g_ctx))

WebAnswer ==
  \E reply \in LLMReplies, fu \in FollowupReplies :
    Advance("web", "answer", WebSearchGraph_edges, WebAnswerNode_answer(g_ctx, reply, fu))

AnalysisGraph_run == \E q \in PipelineQueries : Invoke("analysis", "search", [query |-> q])

AnalysisSearch ==
  \E e \in SearchOutcomes :
    Advance("analysis", "search", AnalysisGraph_edges, AnalysisSearchNode_search(g_ctx, e))

AnalysisAnalyze ==
  \E reply \in LLMReplies, fu \in FollowupReplies :
    Advance("analysis", "analyze", AnalysisGraph_edges, AnalysisProcessNode_analyze(g_ctx, reply, fu))

SummarizeGraph_run == \E q \in SummarizeQueries : Invoke("summarize", "input", [query |-> q])

SummarizeInput ==
  \E e \in SearchOutcomes :
    Advance("summarize", "input", SummarizeGraph_edges, SummarizeInputNode_process_input(g_ctx, e))

SummarizeSummarize ==
  \E sm \in DraftReplies, fu \in FollowupReplies :
    Advance("summarize", "summarize", SummarizeGraph_edges,
            SummarizeProcessNode_summarize(g_ctx, sm, fu))

\* graph.invoke returns the state, or the exception leaves run
RunEnd ==
  /\ g_pc \in {"END", "raised"}
  /\ g_graph' = "none"
  /\ g_pc' = "idle"
  /\ g_ctx' = IdleCtx

GraphFrame == UNCHANGED <<routerVars, citeVars, fm, apiVars, concVars>>

GraphNext ==
  \/ DeepResearchGraph_run /\ GraphFrame
  \/ Plan /\ GraphFrame
  \/ Research /\ GraphFrame
  \/ Aggregate /\ GraphFrame
  \/ Write /\ GraphFrame
  \/ Validate /\ GraphFrame
  \/ WebSearchGraph_run /\ GraphFrame
  \/ WebSearch /\ GraphFrame
  \/ WebFetch /\ GraphFrame
  \/ WebBuildContext /\ GraphFrame
  \/ WebAnswer /\ GraphFrame
  \/ AnalysisGraph_run /\ GraphFrame
  \/ AnalysisSearch /\ GraphFrame
  \/ AnalysisAnalyze /\ GraphFrame
  \/ SummarizeGraph_run /\ GraphFrame
  \/ SummarizeInput /\ GraphFrame
  \/ SummarizeSummarize /\ GraphFrame
  \/ RunEnd /\ GraphFrame

(***************************************************************************)
(* Runs of the Document-Only pipeline over the workspace store, with the   *)
(* uploads and the clearings that change the store between the runs.       *)
(***************************************************************************)
RAGOnlyGraph_run ==
  /\ \E q \in PipelineQueries, id \in WorkspaceIds :
       Invoke("rag", "retrieve", [query |-> q, workspace_id |-> id])
  /\ UNCHANGED fm

RagRetrieve ==
  \E e \in RetrieveOutcomes :
    LET r == RAGRetrieveNode_retrieve(g_ctx, fm, e)
    IN  /\ Advance("rag", "retrieve", RAGOnlyGraph_edges, r.ctx)
        /\ fm' = r.fm

RagBuildContext ==
  /\ Advance("rag", "build_context", RAGOnlyGraph_edges, RAGContextNode_build_context(g_ctx))
  /\ UNCHANGED fm

RagAnswer ==
  /\ \E reply \in LLMReplies, fu \in FollowupReplies :
       Advance("rag", "answer", RAGOnlyGraph_edges, RAGAnswerNode_answer(g_ctx, reply, fu))
  /\ UNCHANGED fm

RagEnd == RunEnd /\ UNCHANGED fm

\* FileWorkspace.add_files on the workspace of an id, between two runs; the
\* workspace keeps what the call did before it raised
AddFiles ==
  /\ g_pc = "idle"
  /\ \E id \in WorkspaceIds, batch \in UploadBatches :
       LET fm1 == get_workspace(fm, id)
       IN  /\ Len(fm1[id].files) + Len(batch) <= MaxFiles
           /\ fm' = Put(fm1, id, add_files(fm1[id], batch).ws)
  /\ UNCHANGED <<g_graph, g_pc, g_ctx>>

ClearWorkspace ==
  /\ g_pc = "idle"
  /\ \E id \in DOMAIN fm : fm' = clear_workspace_map(fm, id)
  /\ UNCHANGED <<g_graph, g_pc, g_ctx>>

RagFrame == UNCHANGED <<routerVars, citeVars, apiVars, concVars>>

RagNext ==
  \/ RAGOnlyGraph_run /\ RagFrame
  \/ RagRetrieve /\ RagFrame
  \/ RagBuildContext /\ RagFrame
  \/ RagAnswer /\ RagFrame
  \/ RagEnd /\ RagFrame
  \/ AddFiles /\ RagFrame
  \/ ClearWorkspace /\ RagFrame

(***************************************************************************)
(* Runs of the Agentic pipeline over the workspace store.                  *)
(***************************************************************************)
AgenticRAGGraph_run ==
  /\ \E q \in AgenticQueries, id \in AgenticWorkspaces :
       Invoke("agentic", "planner", [query |-> q, workspace_id |-> id])
  /\ UNCHANGED fm

AgenticPlan ==
  /\ Advance("agentic", "planner", AgenticRAGGraph_edges, AgenticPlannerNode_plan(g_ctx))
  /\ UNCHANGED fm

AgenticFile ==
  \E e \in RetrieveOutcomes :
    LET r == AgenticFileNode_retrieve(g_ctx, fm, e)
    IN  /\ Advance("agentic", "file_agent", AgenticRAGGraph_edges, r.ctx)
        /\ fm' = r.fm

AgenticWeb ==
  /\ \E e \in AgenticSearchOutcomes :
       Advance("agentic", "web_agent", AgenticRAGGraph_edges, AgenticWebNode_search(g_ctx, e))
  /\ UNCHANGED fm

AgenticKnowledge ==
  /\ \E d \in DocsOutcomes :
       Advance("agentic", "knowledge_agent", AgenticRAGGraph_edges,
               AgenticKnowledgeNode_retrieve(g_ctx, d))
  /\ UNCHANGED fm

AgenticImage ==
  /\ \E im \in ImageOutcomes :
       Advance("agentic", "image_agent", AgenticRAGGraph_edges, AgenticImageNode_search(g_ctx, im))
  /\ UNCHANGED fm

AgenticSynthesize ==
  /\ \E reply \in AgenticReplies, fu \in FollowupReplies :
       Advance("agentic", "synthesizer", AgenticRAGGraph_edges,
               AgenticSynthesizerNode_synthesize(g_ctx, reply, fu))
  /\ UNCHANGED fm

AgenticEnd == g_graph = "agentic" /\ RunEnd /\ UNCHANGED fm

AgenticNext ==
  \/ AgenticRAGGraph_run /\ RagFrame
  \/ AgenticPlan /\ RagFrame
  \/ AgenticFile /\ RagFrame
  \/ AgenticWeb /\ RagFrame
  \/ AgenticKnowledge /\ RagFrame
  \/ AgenticImage /\ RagFrame
  \/ AgenticSynthesize /\ RagFrame
  \/ AgenticEnd /\ RagFrame
  \/ AddFiles /\ RagFrame
  \/ ClearWorkspace /\ RagFrame

(***************************************************************************)
(* The endpoints of app/api.py, one request at a time: a request is        *)
(* handled as a whole, and then its response is delivered.                 *)
(***************************************************************************)
NoCall ==
  [endpoint |-> "none", workspace_id |-> "", message |-> <<>>, mode |-> None, log |-> <<>>,
   resp |-> Return(<<>>)]

ApiInit ==
  /\ memory = <<>>
  /\ profile = <<>>
  /\ a_pc = "idle"
  /\ a_out = NoCall

\* the globals the handlers work on
Globals == [store |-> memory, profile |-> profile, fm |-> fm]

\* the number of messages in memory.store
RECURSIVE history_size(_, _)
history_size(store, ids) ==
  IF ids = {} THEN 0
  ELSE LET id == CHOOSE x \in ids : TRUE
       IN  Len(store[id]) + history_size(store, ids \ {id})

\* a handler has returned or raised: r is its outcome
Handled(endpoint, ws, message, r) ==
  /\ memory' = r.store
  /\ profile' = r.profile
  /\ fm' = r.fm
  /\ a_pc' = "done"
  /\ a_out' = [endpoint |-> endpoint, workspace_id |-> ws, message |-> message,
               mode |-> r.mode, log |-> r.log, resp |-> r.resp]

Chat ==
  /\ a_pc = "idle"
  /\ history_size(memory, DOMAIN memory) + 2 <= MaxHistory
  /\ \E ws \in ApiWorkspaces, c \in ChatCases :
       Handled("chat", ws, c.message, chat(Globals, ws, c.message, c.e))

SummarizeMode ==
  /\ a_pc = "idle"
  /\ history_size(memory, DOMAIN memory) + 2 <= MaxHistory
  /\ \E ws \in ApiWorkspaces, c \in SummarizeCases :
       Handled("summarize", ws, c.message, summarize_mode(Globals, ws, c.message, c.e))

UploadDocs ==
  /\ a_pc = "idle"
  /\ \E ws \in ApiWorkspaces, batch \in ApiBatches :
       /\ Len(get_workspace(fm, ws)[ws].files) + Len(batch) <= MaxFiles
       /\ Handled("upload_docs", ws, <<>>, upload_docs(Globals, ws, batch))

\* summarize_graph.run(q), outside any endpoint
SummarizeGraphCall ==
  /\ a_pc = "idle"
  /\ \E q \in SummarizeQueries, e \in {DefaultEnv.search, Raise},
        sm \in DraftReplies, fu \in {DefaultEnv.fu} :
       LET c == SummarizeGraph_invoke(q, e, sm, fu)
       IN  /\ a_pc' = "done"
           /\ a_out' = [endpoint |-> "summarize_graph.run", workspace_id |-> "", message |-> q,
                        mode |-> None, log |-> c.log,
                        resp |-> IF c.err THEN Raise ELSE Return(c.st)]
  /\ UNCHANGED <<memory, profile, fm>>

\* a request to a mode endpoint: handler is its outcome
ModeRequest(endpoint, ws, message, r) ==
  /\ a_pc = "idle"
  /\ history_size(memory, DOMAIN memory) + 2 <= MaxHistory
  /\ Handled(endpoint, ws, message, r)

DeepResearch ==
  \E ws \in ApiWorkspaces, message \in ModeMessages, e \in ModeEnvs :
    ModeRequest("deep_research", ws, message, deep_research(Globals, ws, message, e))

WebSearchMode ==
  \E ws \in ApiWorkspaces, message \in ModeMessages, e \in ModeEnvs :
    ModeRequest("web", ws, message, web_search_mode(Globals, ws, message, e))

RagMode ==
  \E ws \in ApiWorkspaces, message \in ModeMessages, e \in ModeEnvs :
    ModeRequest("rag", ws, message, rag_mode(Globals, ws, message, e))

AgenticMode ==
  \E ws \in ApiWorkspaces, message \in ModeMessages, e \in ModeEnvs :
    ModeRequest("agentic", ws, message, agentic_mode(Globals, ws, message, e))

AnalyzeMode ==
  \E ws \in ApiWorkspaces, message \in ModeMessages, e \in ModeEnvs :
    ModeRequest("analyze", ws, message, analyze_mode(Globals, ws, message, e))

FocusMode ==
  \E ws \in ApiWorkspaces, message \in ModeMessages, e \in ModeEnvs :
    ModeRequest("focus", ws, message, focus_mode(Globals, ws, message, e))

ClearWorkspaceRequest ==
  /\ a_pc = "idle"
  /\ \E ws \in ApiWorkspaces : Handled("clear_workspace", ws, <<>>, clear_workspace(Globals, ws))

\* /api/chat/stream returns its StreamingResponse; the generator runs while
\* the response is sent
ChatStream ==
  /\ a_pc = "idle"
  /\ history_size(memory, DOMAIN memory) + 2 <= MaxHistory
  /\ \E ws \in ApiWorkspaces, message \in {Msg_hi, Msg_joke}, s \in StreamOutcomes :
       LET r == chat_stream(Globals, ws, message)
       IN  /\ memory' = r.store
           /\ a_pc' = "streaming"
           /\ a_out' = [endpoint |-> "chat_stream", workspace_id |-> ws, message |-> message,
                        mode |-> None, log |-> r.log,
                        resp |-> Return([yielded |-> <<>>, full |-> <<>>, pending |-> s.frags,
                                         fails |-> s.fails, ended |-> "no"])]
  /\ UNCHANGED <<profile, fm>>

\* the log once the generator has called llm.stream
Started(log) ==
  IF \E i \in 1..Len(log) : log[i] = "llm.stream" THEN log ELSE Append(log, "llm.stream")

\* generate(): the next chunk of llm.stream; a token that is not empty is
\* added to full and yielded
StreamYield ==
  /\ a_pc = "streaming"
  /\ a_out.resp.value.pending # <<>>
  /\ LET v   == a_out.resp.value
         tok == Head(v.pending)
     IN  a_out' = [a_out EXCEPT
                     !.log = Started(@),
                     !.resp.value = [v EXCEPT !.pending = Tail(@),
                                              !.full = IF tok # <<>> THEN @ \o tok ELSE @,
                                              !.yielded = IF tok # <<>> THEN Append(@, tok) ELSE @]]
  /\ UNCHANGED <<memory, profile, fm, a_pc>>

\* the stream is exhausted: generate() appends the reply and ends
StreamFinish ==
  /\ a_pc = "streaming"
  /\ a_out.resp.value.pending = <<>>
  /\ ~a_out.resp.value.fails
  /\ memory' = memory_add(memory, a_out.workspace_id, "assistant", a_out.resp.value.full)
  /\ a_pc' = "done"
  /\ a_out' = [a_out EXCEPT !.log = Append(Started(@), "memory.add assistant"),
                            !.resp.value.ended = "exhausted"]
  /\ UNCHANGED <<profile, fm>>

\* llm.stream raises after its fragments, or the client goes away and the
\* server closes the generator: generate() ends without appending
StreamAbort ==
  /\ a_pc = "streaming"
  /\ a_pc' = "done"
  /\ a_out' = [a_out EXCEPT !.resp.value.ended =
                 IF a_out.resp.value.pending = <<>> /\ a_out.resp.value.fails
                   THEN "raised" ELSE "closed"]
  /\ UNCHANGED <<memory, profile, fm>>

\* the response is delivered
Respond ==
  /\ a_pc = "done"
  /\ a_pc' = "idle"
  /\ a_out' = NoCall
  /\ UNCHANGED <<memory, profile, fm>>

ApiFrame == UNCHANGED <<routerVars, citeVars, graphVars, concVars>>

ApiNext ==
  \/ Chat /\ ApiFrame
  \/ SummarizeMode /\ ApiFrame
  \/ UploadDocs /\ ApiFrame
  \/ SummarizeGraphCall /\ ApiFrame
  \/ DeepResearch /\ ApiFrame
  \/ WebSearchMode /\ ApiFrame
  \/ RagMode /\ ApiFrame
  \/ AgenticMode /\ ApiFrame
  \/ AnalyzeMode /\ ApiFrame
  \/ FocusMode /\ ApiFrame
  \/ ClearWorkspaceRequest /\ ApiFrame
  \/ ChatStream /\ ApiFrame
  \/ StreamYield /\ ApiFrame
  \/ StreamFinish /\ ApiFrame
  \/ StreamAbort /\ ApiFrame
  \/ Respond /\ ApiFrame

(***************************************************************************)
(* Concurrent requests to one workspace id.  The handlers declared with    *)
(* def run in the threads of the server's pool; upload_docs (async def)    *)
(* runs on the event loop and gives way to another upload only at its      *)
(* await.  The objects of FileWorkspace are kept by reference: heap holds  *)
(* the objects made so far and workspaces is file_manager._workspaces.     *)
(***************************************************************************)
UploadRequests == {"u1", "u2"}

QueryRequests == {"q1", "q2"}

Requests == UploadRequests \cup QueryRequests

SharedWorkspace == "w1"

\* the files of an upload request, each with text
UploadOf(r) ==
  IF r = "u1" THEN <<[name |-> File_a, load |-> "text"]>>
  ELSE <<[name |-> File_b, load |-> "text"]>>

ConcInit ==
  /\ workspaces = <<>>
  /\ heap = <<>>
  /\ t_pc = [r \in Requests |-> "idle"]
  /\ t_ws = [r \in Requests |-> 0]

\* the positions inside get_workspace
InGetWorkspace == {"construct", "assign", "return"}

\* the event loop runs one coroutine at a time: an upload moves only while
\* no other upload is between two awaits, that is inside get_workspace
LoopFree(r) ==
  r \in UploadRequests => \A u \in UploadRequests \ {r} : t_pc[u] \notin InGetWorkspace

\* get_workspace, file_manager.py:85: the test of the id in the map
GetWorkspaceCheck(r) ==
  /\ t_pc[r] = "idle"
  /\ LoopFree(r)
  /\ t_pc' = [t_pc EXCEPT ![r] = IF SharedWorkspace \notin DOMAIN workspaces
                                   THEN "construct" ELSE "return"]
  /\ UNCHANGED <<workspaces, heap, t_ws>>

\* file_manager.py:86, right-hand side: FileWorkspace(workspace_id, base_dir)
\* makes the directory and loads the embedding model
GetWorkspaceConstruct(r) ==
  /\ t_pc[r] = "construct"
  /\ LoopFree(r)
  /\ heap' = Append(heap, FileWorkspace_init)
  /\ t_ws' = [t_ws EXCEPT ![r] = Len(heap) + 1]
  /\ t_pc' = [t_pc EXCEPT ![r] = "assign"]
  /\ UNCHANGED workspaces

\* file_manager.py:86, the store into the map
GetWorkspaceAssign(r) ==
  /\ t_pc[r] = "assign"
  /\ LoopFree(r)
  /\ workspaces' = Put(workspaces, SharedWorkspace, t_ws[r])
  /\ t_pc' = [t_pc EXCEPT ![r] = "return"]
  /\ UNCHANGED <<heap, t_ws>>

\* file_manager.py:87: the entry of the map is returned; an upload goes on
\* to its await (api.py:539), a query to the retrieval
GetWorkspaceReturn(r) ==
  /\ t_pc[r] = "return"
  /\ LoopFree(r)
  /\ t_ws' = [t_ws EXCEPT ![r] = workspaces[SharedWorkspace]]
  /\ t_pc' = [t_pc EXCEPT ![r] = IF r \in UploadRequests THEN "saving" ELSE "retrieve"]
  /\ UNCHANGED <<workspaces, heap>>

\* upload_docs after the await, api.py:543-552: add_files on the object the
\* handler holds
UploadAddFiles(r) ==
  /\ r \in UploadRequests
  /\ t_pc[r] = "saving"
  /\ LoopFree(r)
  /\ heap' = [heap EXCEPT ![t_ws[r]] = add_files(@, UploadOf(r)).ws]
  /\ t_pc' = [t_pc EXCEPT ![r] = "done"]
  /\ UNCHANGED <<workspaces, t_ws>>

\* a document query reads the object it holds (agents.py:292-300)
QueryRetrieve(r) ==
  /\ r \in QueryRequests
  /\ t_pc[r] = "retrieve"
  /\ t_pc' = [t_pc EXCEPT ![r] = "done"]
  /\ UNCHANGED <<workspaces, heap, t_ws>>

ConcFrame == UNCHANGED <<routerVars, citeVars, graphVars, fm, apiVars>>

ConcNext ==
  \/ (\E r \in Requests : GetWorkspaceCheck(r)) /\ ConcFrame
  \/ (\E r \in Requests : GetWorkspaceConstruct(r)) /\ ConcFrame
  \/ (\E r \in Requests : GetWorkspaceAssign(r)) /\ ConcFrame
  \/ (\E r \in Requests : GetWorkspaceReturn(r)) /\ ConcFrame
  \/ (\E r \in Requests : UploadAddFiles(r)) /\ ConcFrame
  \/ (\E r \in Requests : QueryRetrieve(r)) /\ ConcFrame

(***************************************************************************)
(* Requests to two workspaces: chats that set and ask the name or query    *)
(* the documents, uploads, document queries (/api/rag) and clears.         *)
(***************************************************************************)
IsoWorkspaces == {"w1", "w2"}

\* the chats: a name, the question for it, and a query that the classifier
\* sends to the documents
IsoChatCases ==
  { [message |-> Msg_name, e |-> DefaultEnv],
    [message |-> Msg_ask_name, e |-> DefaultEnv],
    [message |-> Msg_joke, e |-> [DefaultEnv EXCEPT !.classifier = BackendOk(M_rag)]] }

\* the workspace has room for one more exchange
HistoryRoom(ws) == Len(get_long_chat(memory, ws)) + 2 <= MaxHistory

IsoChat ==
  /\ a_pc = "idle"
  /\ \E ws \in IsoWorkspaces, c \in IsoChatCases :
       /\ HistoryRoom(ws)
       /\ Handled("chat", ws, c.message, chat(Globals, ws, c.message, c.e))

IsoUploadDocs ==
  /\ a_pc = "idle"
  /\ \E ws \in IsoWorkspaces, batch \in ApiBatches :
       /\ Len(get_workspace(fm, ws)[ws].files) + Len(batch) <= MaxFiles
       /\ Handled("upload_docs", ws, <<>>, upload_docs(Globals, ws, batch))

IsoRagMode ==
  /\ a_pc = "idle"
  /\ \E ws \in IsoWorkspaces, e \in {ModeDefaultEnv, [ModeDefaultEnv EXCEPT !.retr = Return(1)]} :
       /\ HistoryRoom(ws)
       /\ Handled("rag", ws, Q_topic, rag_mode(Globals, ws, Q_topic, e))

IsoClearWorkspace ==
  /\ a_pc = "idle"
  /\ \E ws \in IsoWorkspaces : Handled("clear_workspace", ws, <<>>, clear_workspace(Globals, ws))

IsoNext ==
  \/ IsoChat /\ ApiFrame
  \/ IsoUploadDocs /\ ApiFrame
  \/ IsoRagMode /\ ApiFrame
  \/ IsoClearWorkspace /\ ApiFrame
  \/ Respond /\ ApiFrame

(***************************************************************************)
(* Runs of the six pipelines, node by node, over a store that holds at     *)
(* most the workspace "w1" and the uploads of one text file.               *)
(***************************************************************************)
PipelineUpload ==
  /\ g_pc = "idle"
  /\ LET fm1 == get_workspace(fm, "w1")
     IN  /\ Len(fm1["w1"].files) + 1 <= MaxFiles
         /\ fm' = Put(fm1, "w1", add_files(fm1["w1"], <<[name |-> File_a, load |-> "text"]>>).ws)
  /\ UNCHANGED <<g_graph, g_pc, g_ctx>>

PipelinesNext ==
  \/ GraphNext
  \/ RAGOnlyGraph_run /\ RagFrame
  \/ RagRetrieve /\ RagFrame
  \/ RagBuildContext /\ RagFrame
  \/ RagAnswer /\ RagFrame
  \/ AgenticRAGGraph_run /\ RagFrame
  \/ AgenticPlan /\ RagFrame
  \/ AgenticFile /\ RagFrame
  \/ AgenticWeb /\ RagFrame
  \/ AgenticKnowledge /\ RagFrame
  \/ AgenticImage /\ RagFrame
  \/ AgenticSynthesize /\ RagFrame
  \/ PipelineUpload /\ RagFrame

(***************************************************************************)
(* The specifications.                                                     *)
(***************************************************************************)
Init == RouterInit /\ CiteInit /\ GraphInit /\ StoreInit /\ ApiInit /\ ConcInit

Next ==
  RouterNext \/ CiteNext \/ GraphNext \/ RagNext \/ AgenticNext \/ ApiNext \/ ConcNext \/ IsoNext

Spec == Init /\ [][Next]_vars

SpecRouter == Init /\ [][RouterNext]_vars

SpecCite == Init /\ [][CiteNext]_vars

SpecGraph == Init /\ [][GraphNext]_vars

SpecRag == Init /\ [][RagNext]_vars

SpecAgentic == Init /\ [][AgenticNext]_vars

SpecApi == Init /\ [][ApiNext]_vars

SpecConc == Init /\ [][ConcNext]_vars

SpecIso == Init /\ [][IsoNext]_vars

SpecPipelines == Init /\ [][PipelinesNext]_vars

(***************************************************************************)
(* The router's claims, checked under SpecRouter.                          *)
(***************************************************************************)
ModeTags == { M_llm, M_image, M_web, M_rag, M_deep_research }

\* some word of the list occurs in the lower-cased text
Occurs(list, low) ==
  \E k \in 1..Len(list) :
    \E i \in 1..Len(low) :
      /\ i + Len(list[k]) - 1 <= Len(low)
      /\ SubSeq(low, i, i + Len(list[k]) - 1) = list[k]

OccursAny(list, text) == Occurs(list, lower(text))

\* the reply of the fallback classifier, read as the claims read it
ClassifierVerdict(reply) ==
  LET word == lower(strip(reply))
  IN  IF word \in { M_web, M_rag, M_llm, M_deep_research } THEN word ELSE M_llm

\* the mode of each of the nine layers
LayerMode ==
  << M_llm, M_image, M_web, M_web, M_web, M_web, M_deep_research, M_rag >>

\* does layer n match the trimmed query t (low is t in lower case)
LayerMatches(n, t, low) ==
  CASE n = 1 -> \E k \in 1..Len(greetings) : low = greetings[k]
    [] n = 2 -> Occurs(image_words, low)
    [] n = 3 -> Occurs(realtime, low)
    [] n = 4 -> Occurs(patterns, low)
    [] n = 5 -> Occurs(ai_models, low)
    [] n = 6 -> /\ Len(split(t)) <= 2
                /\ \E m \in 1..Len(split(t)) : isupper(Head(split(t)[m]))
    [] n = 7 -> Occurs(deep_words, low)
    [] n = 8 -> \E k \in 1..Len(definition_prefixes) :
                  /\ Len(definition_prefixes[k]) <= Len(low)
                  /\ SubSeq(low, 1, Len(definition_prefixes[k])) = definition_prefixes[k]
    [] OTHER -> TRUE

\* the first layer, from n on, that matches
RECURSIVE FirstLayer(_, _, _)
FirstLayer(n, t, low) ==
  IF LayerMatches(n, t, low) THEN n ELSE FirstLayer(n + 1, t, low)

FirstMatch(q0, b) ==
  LET n == FirstLayer(1, strip(q0), lower(strip(q0)))
  IN  IF n <= Len(LayerMode) THEN LayerMode[n]
      ELSE IF b.ok THEN ClassifierVerdict(b.content) ELSE <<>>

C2_RealtimeAlwaysWeb ==
  (r_pc = "done" /\ OccursAny(realtime, r_q)) => r_out = Return(M_web)

\* C2 amended: every query that contains a real-time keyword and no image
\* keyword routes to web, also when it starts with a definition-style prefix.
C2_RealtimeWithoutImageIsWeb ==
  (r_pc = "done" /\ OccursAny(realtime, r_q) /\ ~OccursAny(image_words, r_q))
    => r_out = Return(M_web)

\* "what is now": a real-time keyword behind a definition-style prefix
C2_Witness ==
  /\ r_pc = "done"
  /\ OccursAny(realtime, r_q)
  /\ startswith(lower(strip(r_q)), definition_prefixes[1])
  /\ r_out = Return(M_web)

\* C3: on the fallback path, a reply of the backend that is, trimmed and
\* lower-cased, one of web, rag, llm, deep_research is the result of route;
\* any other reply (empty, several words, another word) gives llm.
C3_FallbackDefaultsToLlm ==
  (r_pc = "done" /\ r_backend # NoBackend /\ r_backend.ok) =>
    LET word == lower(strip(r_backend.content))
    IN  /\ word \in { M_web, M_rag, M_llm, M_deep_research } => r_out = Return(word)
        /\ word \notin { M_web, M_rag, M_llm, M_deep_research } => r_out = Return(M_llm)

\* a malformed reply of two words was mapped to llm
C3_Witness ==
  /\ r_pc = "done"
  /\ r_backend # NoBackend
  /\ r_backend.ok
  /\ Len(split(r_backend.content)) = 2
  /\ r_out = Return(M_llm)

\* C4 as stated: no call of route raises.
C4_RouteNeverRaises == r_pc = "done" => r_out.kind = "return"

(***************************************************************************)
(* The citation tool's claims, checked under SpecCite.                     *)
(***************************************************************************)
\* the numbers n for which a marker [n] stands in the answer: an opening
\* bracket, one or more digits that read n, a closing bracket
Referenced(answer) ==
  { int_of(SubSeq(answer, a + 1, b - 1)) :
      <<a, b>> \in { p \in (1..Len(answer)) \X (1..Len(answer)) :
                       /\ p[1] + 1 < p[2]
                       /\ answer[p[1]] = "["
                       /\ answer[p[2]] = "]"
                       /\ \A k \in (p[1] + 1)..(p[2] - 1) : isdigit(answer[k]) } }

\* the sources at the referenced positions, by ascending position
RECURSIVE Cited(_, _, _)
Cited(refs, sources, n) ==
  IF n > Len(sources) THEN <<>>
  ELSE (IF n \in refs THEN <<sources[n]>> ELSE <<>>) \o Cited(refs, sources, n + 1)

\* C6: attach_sources returns sources[i-1] for exactly the distinct indices i
\* that a marker [i] of the answer names and that lie in 1..len(sources), by
\* ascending i and once each; 0 and indices beyond the list are dropped.
C6_AttachIsReferencedSources ==
  c_pc = "done" =>
    /\ c_mapped = Cited(Referenced(c_answer), c_sources, 1)
    /\ Len(c_mapped) = Cardinality(Referenced(c_answer) \cap (1..Len(c_sources)))
    /\ \A i, j \in 1..Len(c_mapped) :
         i < j => \E a, b \in 1..Len(c_sources) :
                    a < b /\ c_mapped[i] = c_sources[a] /\ c_mapped[j] = c_sources[b]

\* markers [3] and [1], the first one twice, no [2], and an index beyond the
\* three sources: exactly sources[0] and sources[2] come back
C6_Witness ==
  /\ c_pc = "done"
  /\ Len(c_sources) = 3
  /\ Referenced(c_answer) \cap (0..3) = {1, 3}
  /\ Len(finditer(c_answer, 1)) = 3
  /\ c_mapped = <<c_sources[1], c_sources[3]>>


(***************************************************************************)
(* The pipelines' claims, checked under SpecGraph and SpecRag.             *)
(***************************************************************************)
NodeNames ==
  {"plan", "research", "aggregate", "write", "validate", "search", "fetch",
   "build_context", "answer", "retrieve", "analyze", "input", "summarize"}

\* the nodes a run entered, in order
Nodes(log) == pick(log, { i \in 1..Len(log) : log[i] \in NodeNames }, 1)

\* a run of the pipeline has returned its final state
Returned(graph) == g_graph = graph /\ g_pc = "END"

\* the final answer and the candidate sources of a run that returned: the
\* pages or links the pipeline fetched, as {title, url}
FinalAnswer == Get(g_ctx.st, IF g_graph = "deep" THEN "final_answer" ELSE "answer", <<>>)

Candidates ==
  title_url(Get(g_ctx.st, IF g_graph = "analysis" THEN "links" ELSE "web_pages", <<>>))

\* C7: the final sources of Deep-Research, Web-Search and Analysis
\* are exactly the candidate sources whose 1-based index a [n] marker of the
\* answer references.
C7_SourcesAreCitedCandidates ==
  (Returned("deep") \/ Returned("web") \/ Returned("analysis")) =>
    g_ctx.st["sources"] = Cited(Referenced(FinalAnswer), Candidates, 1)

\* the workspace a run of the Document-Only pipeline reads
RunWorkspace == fm[g_ctx.st["workspace_id"]]

\* C8: when the workspace's index is uninitialized or the workspace has no
\* file, a run of the Document-Only pipeline enters retrieve, build_context
\* and answer in this order, never calls the generation backend, and ends
\* with the fixed 'no documents' answer, no sources and no follow-ups.
C8_NoDocumentsShortCircuit ==
  (g_graph = "rag" /\ g_pc \in {"END", "raised"}
     /\ (~RunWorkspace.initialized \/ RunWorkspace.files = <<>>)) =>
    /\ g_pc = "END"
    /\ Nodes(g_ctx.log) = <<"retrieve", "build_context", "answer">>
    /\ \A i \in 1..Len(g_ctx.log) : g_ctx.log[i] \notin BackendCalls \cup {"ws.retrieve"}
    /\ g_ctx.st["answer"] = NO_DOCUMENTS
    /\ g_ctx.st["sources"] = <<>>
    /\ g_ctx.st["followups"] = <<>>

\* the workspace holds a file name, its index was never made, and the run
\* ended with the fixed answer
C8_Witness ==
  /\ Returned("rag")
  /\ RunWorkspace.files # <<>>
  /\ ~RunWorkspace.initialized
  /\ g_ctx.st["answer"] = NO_DOCUMENTS

\* the input node of the Summarize pipeline obtained no text: the fetch of the
\* URL gave none, or no page of a search result was fetched (no result, no
\* page with text, or the search step failed)
NoContentObtained ==
  IF g_ctx.st["is_url"] THEN fetch_clean(g_ctx.st["query"]) = <<>>
  ELSE Get(g_ctx.st, "links", <<>>) = <<>>

\* C10 as stated: whenever the Summarize pipeline obtained no content, its
\* answer is the fixed 'Could not find content to summarize.' and the
\* summarizer is not called.
C10_NoContentGivesFixedMessage ==
  (Returned("summarize") /\ NoContentObtained) =>
    /\ g_ctx.st["answer"] = COULD_NOT_FIND
    /\ \A i \in 1..Len(g_ctx.log) : g_ctx.log[i] # "summarizer.summarize"

(***************************************************************************)
(* The endpoints' claims, checked under SpecApi.                           *)
(***************************************************************************)
\* a request to the endpoint has been handled and its response returned
Answered(endpoint) ==
  a_pc = "done" /\ a_out.endpoint = endpoint /\ a_out.resp.kind = "return"

Logged(call) == \E i \in 1..Len(a_out.log) : a_out.log[i] = call

\* C5 as stated: at /api/chat, whenever the router returns deep_research the
\* Deep-Research pipeline (Plan, Research, Aggregate, Write, Validate) is run.
C5_ChatRunsDeepResearch ==
  (Answered("chat") /\ a_out.mode = M_deep_research) =>
    Nodes(a_out.log) = <<"plan", "research", "aggregate", "write", "validate">>

\* the query of a Summarize request as the handler or the pipeline sees it
SummarizeQuery ==
  IF a_out.endpoint = "summarize" THEN strip(a_out.message) ELSE a_out.message

UrlQueryAnswered ==
  /\ a_pc = "done"
  /\ a_out.endpoint \in {"summarize", "summarize_graph.run"}
  /\ a_out.resp.kind = "return"
  /\ startswith(SummarizeQuery, Http)

LoadedFrom(chunk) == SubSeq(chunk.page_content, 2, Len(chunk.page_content))

\* C11: every indexed chunk of every workspace carries metadata.source equal
\* to the name of the file it was loaded from, whether the upload held one
\* file or several.
C11_ChunkSourceIsItsFile ==
  \A id \in DOMAIN fm : \A i \in 1..Len(fm[id].index) :
    fm[id].index[i].metadata.source = LoadedFrom(fm[id].index[i])

(***************************************************************************)
(* The Agentic pipeline's claims, checked under SpecAgentic.               *)
(***************************************************************************)
AgenticGates == {"use_file", "use_web", "use_images", "use_knowledge"}

\* the run of the Agentic pipeline has ended, by END or by an exception
AgenticEnded == g_graph = "agentic" /\ g_pc \in {"END", "raised"}

\* the planner has set all four gates to false
AllGatesFalse ==
  /\ g_graph = "agentic"
  /\ \A k \in AgenticGates : k \in DOMAIN g_ctx.st /\ ~g_ctx.st[k]

AgenticNodesAndOneCall ==
  <<"planner", "file_agent", "web_agent", "knowledge_agent", "image_agent", "synthesizer",
    "llm.invoke">>

\* C12: when the planner sets all four gates to false, every agent is entered
\* and retrieves nothing, Synthesize makes one generation call on the fixed
\* general-knowledge context, and unless a call of the generation backend
\* fails the run returns with the backend's answer and with sources, links
\* and images all empty.
C12_AllGatesFalseStillAnswers ==
  (AllGatesFalse /\ AgenticEnded) =>
    /\ g_ctx.log \in {AgenticNodesAndOneCall, Append(AgenticNodesAndOneCall, "followup.generate")}
    /\ g_ctx.st["combined_context"] = No_specific_context
    /\ g_pc = "END" =>
         /\ "answer" \in DOMAIN g_ctx.st
         /\ g_ctx.st["sources"] = <<>>
         /\ g_ctx.st["links"] = <<>>
         /\ g_ctx.st["images"] = <<>>

\* a query of five words without any keyword, in a workspace that has an
\* index: the run returned the backend's answer
C12_Witness ==
  /\ AllGatesFalse
  /\ g_pc = "END"
  /\ g_ctx.st["answer"] = A_cited
  /\ g_ctx.st["workspace_id"] \in DOMAIN fm
  /\ fm[g_ctx.st["workspace_id"]].initialized

(***************************************************************************)
(* The mode endpoints' claims, checked under SpecApi.                      *)
(***************************************************************************)
\* the endpoints that answer with a ChatResponse
ChatResponseEndpoints ==
  {"chat", "summarize", "deep_research", "web", "rag", "agentic", "analyze", "focus"}

\* the mode a request resolves to: the router's tag at /api/chat, the
\* web-search mode at /api/web
ResolvedMode == IF a_out.endpoint = "web" THEN M_web ELSE a_out.mode

\* C13: in every response of every endpoint default_tab is images if the
\* query contains an image-intent keyword, otherwise links if the resolved
\* mode is the web-search mode, otherwise answer.
C13_DefaultTabFollowsRule ==
  (a_pc = "done" /\ a_out.endpoint \in ChatResponseEndpoints /\ a_out.resp.kind = "return") =>
    a_out.resp.value.default_tab =
      IF OccursAny(tab_image_words, a_out.message) THEN "images"
      ELSE IF ResolvedMode = M_web THEN "links"
      ELSE "answer"

\* the endpoints that keep the chat history
MemoryEndpoints == ChatResponseEndpoints \cup {"chat_stream"}

\* a request to such an endpoint has been taken: its handler has ended, or
\* its streaming response is being sent
RequestTaken == a_pc \in {"done", "streaming"} /\ a_out.endpoint \in MemoryEndpoints

\* the calls that make the answer: the generation backend and the nodes of
\* the pipelines
AnswerCalls ==
  {"llm.invoke", "llm.stream", "summarizer.summarize"} \cup NodeNames
    \cup {"planner", "file_agent", "web_agent", "knowledge_agent", "image_agent", "synthesizer"}

\* the user message is appended first, before every read of the history
UserMessageFirst ==
  RequestTaken =>
    /\ a_out.log # <<>>
    /\ a_out.log[1] = "memory.add user"
    /\ \A i \in 1..Len(a_out.log) : a_out.log[i] = "build_context" => i > 1

\* no call that makes the answer follows the append of the reply
ReplyAfterAnswer ==
  RequestTaken =>
    \A i \in 1..Len(a_out.log) :
      a_out.log[i] = "memory.add assistant" =>
        \A j \in (i + 1)..Len(a_out.log) : a_out.log[j] \notin AnswerCalls

\* once the response of a request has been returned, the history is left
\* alone until the next request
HistoryKeptAfterReturn == RequestTaken => memory' = memory

StreamAppendsAtEnd ==
  (a_pc = "streaming" /\ memory' # memory) =>
    /\ a_out.resp.value.pending = <<>>
    /\ a_pc' = "done"
    /\ memory' = memory_add(memory, a_out.workspace_id, "assistant", a_out.resp.value.full)

ModeEndpoints == {"deep_research", "web", "rag", "agentic", "analyze", "summarize", "focus"}

EnvelopeFields ==
  {"answer", "sources", "links", "images", "followups", "default_tab", "workspace_id"}

\* C15: whatever fails inside the pipeline of a mode endpoint, the handler
\* returns a response with all seven fields of the envelope; no exception
\* leaves the handler.
C15_ModeEndpointsAlwaysRespond ==
  (a_pc = "done" /\ a_out.endpoint \in ModeEndpoints) =>
    /\ a_out.resp.kind = "return"
    /\ DOMAIN a_out.resp.value = EnvelopeFields

(***************************************************************************)
(* The pipelines' claims on failures, checked under SpecGraph.             *)
(***************************************************************************)
\* the stages of the graph that runs, in the order of its edges
GraphStages ==
  CASE g_graph = "deep"      -> <<"plan", "research", "aggregate", "write", "validate">>
    [] g_graph = "web"       -> <<"search", "fetch", "build_context", "answer">>
    [] g_graph = "analysis"  -> <<"search", "analyze">>
    [] g_graph = "summarize" -> <<"input", "summarize">>
    [] OTHER                 -> <<>>

\* C16: no stage of any pipeline raises when an adapter fails in an expected
\* way (no search result, unreachable page, search or fetch error, failing
\* generation backend): the run never ends by an exception, and a run that
\* has ended has entered every stage of its pipeline.
C16_NoStageRaises ==
  /\ g_pc # "raised"
  /\ g_pc = "END" => Nodes(g_ctx.log) = GraphStages

\* a Web-Search or Analysis run whose search and fetches gave no page: the
\* links the run keeps are set and empty
EmptyEvidence ==
  /\ g_graph \in {"web", "analysis"}
  /\ "links" \in DOMAIN g_ctx.st
  /\ g_ctx.st["links"] = <<>>

\* C17: a Web-Search or Analysis run without evidence does not fail, and its
\* answer is the pipeline's fixed message: the run does not end by an
\* exception, the answer is not asked of the generation backend, and the
\* final sources and links are empty.
C17_EmptyEvidenceFixedMessage ==
  EmptyEvidence =>
    /\ g_pc # "raised"
    /\ \A i \in 1..Len(g_ctx.log) : g_ctx.log[i] # "llm.invoke"
    /\ g_pc = "END" =>
         /\ Get(g_ctx.st, "sources", <<>>) = <<>>
         /\ Get(g_ctx.st, "links", <<>>) = <<>>

(***************************************************************************)
(* The claim on concurrent requests, checked under SpecConc.               *)
(***************************************************************************)
\* the objects that have received an upload
Uploaded == { t_ws[r] : r \in { u \in UploadRequests : t_pc[u] = "done" } }

\* the object o has a chunk of the file of the upload r in its index
HasChunkOf(o, r) ==
  \E i \in 1..Len(heap[o].index) :
    heap[o].index[i].page_content = <<"$">> \o UploadOf(r)[1].name

\* C18: under every interleaving of concurrent requests to one workspace id
\* nothing is lost: at most one workspace object receives uploads, and the
\* chunks of every finished upload are in the index of the object that the
\* map holds for the id, which is the index later requests read.
C18_ConcurrentRequestsLoseNothing ==
  /\ Cardinality(Uploaded) <= 1
  /\ \A r \in UploadRequests :
       t_pc[r] = "done" =>
         /\ HasChunkOf(t_ws[r], r)
         /\ SharedWorkspace \in DOMAIN workspaces
         /\ HasChunkOf(workspaces[SharedWorkspace], r)

(***************************************************************************)
(* The life of a workspace's index, checked under SpecRag.                 *)
(***************************************************************************)
\* s is the beginning of t
IsPrefix(s, t) == Len(s) <= Len(t) /\ SubSeq(t, 1, Len(s)) = s

\* the index is there exactly when a chunk has been indexed, and a
\* workspace without index retrieves nothing
IndexAbsentUntilCreated ==
  \A id \in DOMAIN fm :
    /\ fm[id].initialized <=> fm[id].index # <<>>
    /\ ~fm[id].initialized =>
         \A e \in RetrieveOutcomes \ {Raise} : FileWorkspace_retrieve(fm[id], e) = <<>>

\* a step keeps the chunks of every workspace it leaves in the store, in
\* their order, and keeps its index once created
IndexOnlyGrows ==
  \A id \in DOMAIN fm \cap DOMAIN fm' :
    /\ IsPrefix(fm[id].index, fm'[id].index)
    /\ fm[id].initialized => fm'[id].initialized

\* C19: a workspace has no index (initialized false, retrieval empty) until
\* the first upload that yields a chunk, that upload creates it, later
\* uploads add their chunks and remove none, and initialized goes back to
\* false only when the workspace is cleared.
C19_IndexLifecycle == []IndexAbsentUntilCreated /\ [][IndexOnlyGrows]_vars

\* a second upload has extended the index the first one created
C19_Witness ==
  \E id \in DOMAIN fm : fm[id].initialized /\ Len(fm[id].index) = 2 /\ Len(fm[id].files) = 2

(***************************************************************************)
(* The clear request, checked under SpecApi.                               *)
(***************************************************************************)
\* C20: when a clear request for a workspace has returned, nothing of the
\* workspace is left: no entry of the file manager (index and file names),
\* no chat history and no profile, as for a workspace never seen.
C20_ClearDestroysRecord ==
  (a_pc = "done" /\ a_out.endpoint = "clear_workspace") =>
    /\ a_out.workspace_id \notin DOMAIN fm
    /\ get_long_chat(memory, a_out.workspace_id) = <<>>
    /\ get_name(profile, a_out.workspace_id) = None

(***************************************************************************)
(* The file list of a workspace, checked under SpecRag.                    *)
(***************************************************************************)
\* C21: the uploaded file names of a workspace form a set: whatever was
\* uploaded, and however often, no name occurs twice in the file list.
C21_FileNamesFormASet ==
  \A id \in DOMAIN fm :
    \A i, j \in 1..Len(fm[id].files) : fm[id].files[i] = fm[id].files[j] => i = j

(***************************************************************************)
(* The isolation of the workspaces, checked under SpecIso.                 *)
(***************************************************************************)
\* what the stores hold for a workspace
RecordOf(M, ws) ==
  [history |-> get_long_chat(M.store, ws),
   name    |-> get_name(M.profile, ws),
   files   |-> IF ws \in DOMAIN M.fm THEN M.fm[ws].files ELSE <<>>,
   index   |-> IF ws \in DOMAIN M.fm THEN M.fm[ws].index ELSE <<>>]

\* the globals without the other workspaces
OnlyWorkspace(M, ws) ==
  [store   |-> [id \in DOMAIN M.store \cap {ws} |-> M.store[id]],
   profile |-> [id \in DOMAIN M.profile \cap {ws} |-> M.profile[id]],
   fm      |-> [id \in DOMAIN M.fm \cap {ws} |-> M.fm[id]]]

\* a request to a workspace leaves the record of every other workspace as
\* it was
OthersKept ==
  a_pc' = "done" =>
    \A ws \in IsoWorkspaces \ {a_out'.workspace_id} :
      RecordOf([store |-> memory', profile |-> profile', fm |-> fm'], ws) = RecordOf(Globals, ws)

\* a document query answers the same whatever the other workspaces hold
QueryReadsOwnWorkspace ==
  \A ws \in IsoWorkspaces :
    \A e \in {ModeDefaultEnv, [ModeDefaultEnv EXCEPT !.retr = Return(1)]} :
      rag_mode(Globals, ws, Q_topic, e).resp
        = rag_mode(OnlyWorkspace(Globals, ws), ws, Q_topic, e).resp

\* C22: an operation on a workspace (chat, name, upload, document query,
\* clear) leaves the history, the profile, the file list and the index of
\* every other workspace unchanged, and a document query in a workspace
\* returns nothing of what another workspace holds.
C22_WorkspacesIsolated == [][OthersKept]_vars /\ []QueryReadsOwnWorkspace

\* a document query in one workspace has returned sources while the other
\* workspace holds a history, a name and an index
C22_Witness ==
  /\ a_pc = "done"
  /\ a_out.endpoint = "rag"
  /\ a_out.resp.kind = "return"
  /\ a_out.resp.value.sources # <<>>
  /\ \E ws \in IsoWorkspaces \ {a_out.workspace_id} :
       /\ RecordOf(Globals, ws).history # <<>>
       /\ RecordOf(Globals, ws).name # None
       /\ RecordOf(Globals, ws).index # <<>>

(***************************************************************************)
(* The order of the stages, checked under SpecPipelines.                   *)
(***************************************************************************)
\* the stages of the pipeline that runs, in the declared order
DeclaredStages ==
  CASE g_graph = "deep"      -> <<"plan", "research", "aggregate", "write", "validate">>
    [] g_graph = "web"       -> <<"search", "fetch", "build_context", "answer">>
    [] g_graph = "rag"       -> <<"retrieve", "build_context", "answer">>
    [] g_graph = "agentic"   -> <<"planner", "file_agent", "web_agent", "knowledge_agent",
                                  "image_agent", "synthesizer">>
    [] g_graph = "analysis"  -> <<"search", "analyze">>
    [] g_graph = "summarize" -> <<"input", "summarize">>
    [] OTHER                 -> <<>>

\* the stages the run has entered so far, in order
StagesRun ==
  pick(g_ctx.log,
       { i \in 1..Len(g_ctx.log) :
           g_ctx.log[i] \in NodeNames \cup {"planner", "file_agent", "web_agent",
                                             "knowledge_agent", "image_agent", "synthesizer"} },
       1)

\* C23: in each of the six pipelines the stages run one after the other in
\* the declared order, whatever the query and the gates: the stages entered
\* so far are the beginning of the declared list, the stage to run next is
\* the next of the list, and a run that returns has entered every stage
\* exactly once.
C23_StagesInDeclaredOrder ==
  g_graph # "none" =>
    /\ IsPrefix(StagesRun, DeclaredStages)
    /\ g_pc \notin {"END", "raised"} =>
         /\ Len(StagesRun) < Len(DeclaredStages)
         /\ g_pc = DeclaredStages[Len(StagesRun) + 1]
    /\ g_pc = "END" => StagesRun = DeclaredStages

\* an Agentic run has returned with the web gate on and the file gate off
C23_Witness ==
  /\ g_graph = "agentic"
  /\ g_pc = "END"
  /\ g_ctx.st["use_web"]
  /\ ~g_ctx.st["use_file"]
  /\ StagesRun = DeclaredStages

(***************************************************************************)
(* The fields of the state that the stages read and the endpoints take,    *)
(* checked under SpecPipelines.                                            *)
(***************************************************************************)
\* the fields that the stage about to run reads from the state st, on the
\* branch that st makes it take (state.get and state[...] in agents.py)
StageReads(graph, node, st) ==
  CASE graph = "deep" ->
         (CASE node = "plan"      -> {"question"}
            [] node = "research"  -> {"sub_questions"}
            [] node = "aggregate" -> {"sub_questions", "evidence"}
            [] node = "write"     -> {"draft_answers", "question"}
            [] node = "validate"  -> {"web_pages", "final_answer"})
    [] graph = "web" ->
         (CASE node = "search"        -> {"query"}
            [] node = "fetch"         -> {"search_results"}
            [] node = "build_context" -> {"web_pages"}
            [] node = "answer"        -> {"query", "context", "web_pages"})
    [] graph = "rag" ->
         (CASE node = "retrieve"      -> {"query", "workspace_id"}
            [] node = "build_context" -> {"file_chunks"}
            [] node = "answer"        -> {"query", "context", "file_chunks"})
    [] graph = "agentic" ->
         (CASE node = "planner"         -> {"query"}
            [] node = "file_agent"      ->
                 {"use_file"} \cup (IF Get(st, "use_file", FALSE)
                                      THEN {"query", "workspace_id"} ELSE {})
            [] node = "web_agent"       ->
                 {"use_web"} \cup (IF Get(st, "use_web", FALSE) THEN {"query"} ELSE {})
            [] node = "knowledge_agent" ->
                 {"use_knowledge"} \cup (IF Get(st, "use_knowledge", FALSE) THEN {"query"} ELSE {})
            [] node = "image_agent"     ->
                 {"use_images"} \cup (IF Get(st, "use_images", FALSE) THEN {"query"} ELSE {})
            [] node = "synthesizer"     ->
                 {"query", "file_context", "web_context", "knowledge_context",
                  "file_sources", "web_sources"})
    [] graph = "analysis" ->
         (CASE node = "search"  -> {"query"}
            [] node = "analyze" -> {"query", "web_context"})
    [] graph = "summarize" ->
         (CASE node = "input"     -> {"query"}
            [] node = "summarize" -> {"content", "query"})

\* the fields of the final state that the endpoint of the pipeline takes
\* (api.py:478-479, 908-911, 943-945, 975-979, 744-747); no endpoint runs the
\* Summarize graph, its output fields are those of SummarizeState
EndpointReads(graph) ==
  CASE graph = "deep"      -> {"final_answer", "sources"}
    [] graph = "web"       -> {"answer", "sources", "links", "followups"}
    [] graph = "rag"       -> {"answer", "sources", "followups"}
    [] graph = "agentic"   -> {"answer", "sources", "links", "images", "followups"}
    [] graph = "analysis"  -> {"answer", "sources", "links", "followups"}
    [] graph = "summarize" -> {"answer", "sources", "links", "followups"}

\* C24: on every branch of every pipeline, the fields that the stage about
\* to run reads are in the state (given to the run or written by a stage
\* before it), and when the run returns every output field that the endpoint
\* takes has been written.
C24_FieldsWrittenBeforeRead ==
  g_graph # "none" =>
    /\ g_pc \notin {"END", "raised"} =>
         StageReads(g_graph, g_pc, g_ctx.st) \subseteq DOMAIN g_ctx.st
    /\ g_pc = "END" => EndpointReads(g_graph) \subseteq DOMAIN g_ctx.st

\* an Analysis run has returned through the handler of a failing search,
\* which wrote no web_results
C24_Witness ==
  /\ g_graph = "analysis"
  /\ g_pc = "END"
  /\ "web_results" \notin DOMAIN g_ctx.st
  /\ EndpointReads("analysis") \subseteq DOMAIN g_ctx.st

(***************************************************************************)
(* The gated agents of the Agentic pipeline, checked under SpecPipelines.  *)
(***************************************************************************)
GatedAgents == {"file_agent", "web_agent", "knowledge_agent", "image_agent"}

\* the gate that the agent tests (agents.py:432, 474, 522, 552)
GateOf(node) ==
  CASE node = "file_agent"      -> "use_file"
    [] node = "web_agent"       -> "use_web"
    [] node = "knowledge_agent" -> "use_knowledge"
    [] node = "image_agent"     -> "use_images"

\* the fields that the agent writes
OwnFields(node) ==
  CASE node = "file_agent"      -> {"file_context", "file_sources"}
    [] node = "web_agent"       -> {"web_context", "web_sources", "links"}
    [] node = "knowledge_agent" -> {"knowledge_context"}
    [] node = "image_agent"     -> {"images"}

\* the step is the run of a gated agent whose gate is false
GateClosedStep(node) ==
  /\ g_graph = "agentic" /\ g_graph' = "agentic"
  /\ g_pc = node /\ g_pc' # node
  /\ ~Get(g_ctx.st, GateOf(node), FALSE)

GatedNoOp ==
  \A node \in GatedAgents :
    GateClosedStep(node) =>
      /\ g_ctx'.log = Append(g_ctx.log, node)
      /\ g_ctx'.err = FALSE
      /\ fm' = fm
      /\ DOMAIN g_ctx'.st = DOMAIN g_ctx.st \cup OwnFields(node)
      /\ \A k \in OwnFields(node) : g_ctx'.st[k] = <<>>
      /\ \A k \in DOMAIN g_ctx.st \ OwnFields(node) : g_ctx'.st[k] = g_ctx.st[k]

\* C25: a gated agent of the Agentic pipeline whose gate is false calls no
\* adapter, writes the empty value to exactly its own output fields and
\* leaves every other field of the state, and the workspaces, unchanged.
C25_ClosedGateIsNoOp == [][GatedNoOp]_vars

\* the file agent has just run with its gate false, in a workspace that
\* holds an index
C25_Witness ==
  /\ g_graph = "agentic"
  /\ g_pc = "web_agent"
  /\ ~Get(g_ctx.st, "use_file", TRUE)
  /\ g_ctx.log[Len(g_ctx.log)] = "file_agent"
  /\ g_ctx.st["file_context"] = <<>> /\ g_ctx.st["file_sources"] = <<>>
  /\ \E w \in DOMAIN fm : fm[w].initialized

(***************************************************************************)
(* The reply of the streaming entry point.  The generator of the response  *)
(* is run by the server while the client reads: SpecApiLive is SpecApi     *)
(* with weak fairness on the generator.                                    *)
(***************************************************************************)
StreamStep == (StreamYield \/ StreamFinish \/ StreamAbort) /\ ApiFrame

SpecApiLive == Init /\ [][ApiNext]_vars /\ WF_vars(StreamStep)

\* the text given to memory.add is the fragments yielded, in order
StreamFullIsYielded ==
  (a_pc \in {"streaming", "done"} /\ a_out.endpoint = "chat_stream") =>
    a_out.resp.value.full = join(<<>>, a_out.resp.value.yielded)

\* the history of the request's workspace ends with the reply of the stream
StreamReplied ==
  /\ a_out # NoCall
  /\ a_out.endpoint = "chat_stream"
  /\ LET h == memory[a_out.workspace_id]
     IN  /\ h # <<>>
         /\ h[Len(h)] = [role |-> "assistant", content |-> a_out.resp.value.full]

\* C26 as stated: at the streaming entry point the reply is appended once,
\* only when the stream of the backend has ended and every fragment was
\* yielded, with the concatenation of the yielded fragments as its content;
\* and every streaming request whose user message was appended eventually
\* gets its reply appended.
C26_StreamReplyEventuallyAppended ==
  /\ [][StreamAppendsAtEnd]_vars
  /\ []StreamFullIsYielded
  /\ (a_pc = "streaming") ~> StreamReplied

\* the part of C26 that holds: a reply is appended at most once, only at the
\* end of the stream, with the yielded text
StreamReplyOnlyAtEnd ==
  [][StreamAppendsAtEnd]_vars /\ []StreamFullIsYielded

(***************************************************************************)
(* app/api.py: video_brain_mode, and the requests that write the chat      *)
(* history.  The search results feed the prompt only; the answer is the    *)
(* reply of the backend.                                                   *)
(***************************************************************************)
NoUrlNotice == <<"U+26A0", "n", "o", " ", "u", "r", "l">>

Youtube_url == HttpPrefix \o <<"y", "t", "/", "w", "?", "v", "=", "1">>

Other_url == HttpPrefix \o <<"y", "t", "/", "1">>

video_brain_followups ==
  << <<"f", "1">>, <<"f", "2">>, <<"f", "3">>, <<"f", "4">>, <<"f", "5">> >>

YouTube_Video == <<"Y", "o", "u", "T", "u", "b", "e", " ", "V", "i", "d", "e", "o">>

\* video_brain_mode; e.search is the outcome of the first search_tool.search
\* (an exception of the searches is caught), e.llm the reply of the backend
video_brain_mode(M0, ws, message, youtube_url, e) ==
  LET q  == strip(message)
      M  == [M0 EXCEPT !.store = memory_add(@, ws, "user", q)]
  IN  IF youtube_url = <<>>
        THEN Outcome(M.store, M.profile, M.fm, None, <<"memory.add user">>,
                     Return(ChatResponse(NoUrlNotice, ws)))
        ELSE
          LET has_id  == Occurs(<< <<"v", "=">>, <<"y", "o", "u", "t", "u", ".", "b", "e", "/">> >>,
                                youtube_url)
              results == IF has_id /\ e.search.kind = "return" THEN search(e.search, 3, 0) ELSE <<>>
              titled  == { i \in 1..Len(results) : results[i].title # <<>> }
              video_title == IF titled = {} THEN <<>> ELSE results[SetMin(titled)].title
              shown   == IF video_title # <<>> THEN video_title ELSE YouTube_Video
              log     == <<"memory.add user">>
                           \o (IF has_id THEN <<"search_tool.search">> ELSE <<>>)
                           \o (IF has_id /\ e.search.kind = "raise" THEN <<>>
                               ELSE <<"search_tool.search">>)
                           \o <<"build_context", "llm.invoke">>
          IN  IF ~e.llm.ok THEN Outcome(M.store, M.profile, M.fm, None, log, Raise)
              ELSE Outcome(memory_add(M.store, ws, "assistant", e.llm.content), M.profile, M.fm,
                           None, Append(log, "memory.add assistant"),
                           Return([answer |-> e.llm.content,
                                   sources |-> <<[title |-> <<"U+1F3A5", " ">> \o shown,
                                                  url |-> youtube_url]>>,
                                   links |-> <<[title |-> shown, url |-> youtube_url,
                                                snippet |-> <<"S", "o", "u", "r", "c", "e", " ",
                                                              "v", "i", "d", "e", "o">>]>>,
                                   images |-> <<>>, followups |-> video_brain_followups,
                                   default_tab |-> "answer", workspace_id |-> ws]))

\* a request to /api/video_brain; a request with no url adds one message to
\* the history, any other at most two
VideoBrain ==
  /\ a_pc = "idle"
  /\ \E ws \in ApiWorkspaces, message \in {Msg_hi, Q_topic},
        youtube_url \in {<<>>, Youtube_url, Other_url},
        e \in {ModeDefaultEnv, [ModeDefaultEnv EXCEPT !.search = Raise],
               [ModeDefaultEnv EXCEPT !.llm = BackendFail]} :
       /\ history_size(memory, DOMAIN memory) + (IF youtube_url = <<>> THEN 1 ELSE 2)
            <= MaxHistory
       /\ Handled("video_brain", ws, message,
                  video_brain_mode(Globals, ws, message, youtube_url, e))

HistoryNext ==
  \/ VideoBrain /\ ApiFrame
  \/ Chat /\ ApiFrame
  \/ SummarizeMode /\ ApiFrame
  \/ AnalyzeMode /\ ApiFrame
  \/ ChatStream /\ ApiFrame
  \/ StreamYield /\ ApiFrame
  \/ StreamFinish /\ ApiFrame
  \/ StreamAbort /\ ApiFrame
  \/ Respond /\ ApiFrame

SpecHistory == Init /\ [][HistoryNext]_vars

(***************************************************************************)
(* The alternation of the chat history, checked under SpecHistory.         *)
(***************************************************************************)
\* user, assistant, user, assistant, ...: every user message has its reply
Alternates(h) ==
  /\ Len(h) % 2 = 0
  /\ \A i \in 1..Len(h) : h[i].role = (IF i % 2 = 1 THEN "user" ELSE "assistant")

\* C27: whenever every request so far has completed, the chat history of
\* every workspace strictly alternates user, assistant: each user message is
\* followed by exactly one assistant message before the next user message.
C27_HistoryAlternates ==
  a_pc = "idle" => \A ws \in DOMAIN memory : Alternates(memory[ws])

\* two requests to /api/video_brain with no url have returned their notice
\* and the history holds two user messages in a row
VideoBrainLeavesUserMessages ==
  /\ a_pc = "idle"
  /\ \E ws \in DOMAIN memory :
       /\ Len(memory[ws]) = 2
       /\ memory[ws][1].role = "user" /\ memory[ws][2].role = "user"

(***************************************************************************)
(* The messages given to the backend, checked under SpecHistory.           *)
(***************************************************************************)
\* msgs of chat_stream: build_context(ws, q) runs when memory.add has put q
\* into the history (api.py:448-450), and the history is not written again
\* before the stream ends
StreamMessages == build_context(memory, a_out.workspace_id, a_out.message)

\* the history of the request's workspace before the request
EarlierHistory ==
  LET h == get_long_chat(memory, a_out.workspace_id)
  IN  SubSeq(h, 1, Len(h) - 1)

\* C28: the messages that build_context hands to the backend for a request
\* are the system prompt, the earlier history of the workspace in order,
\* and the message of the request once, as the last user message.
C28_CurrentMessageOnce ==
  (a_pc = "streaming" /\ a_out.endpoint = "chat_stream") =>
    StreamMessages =
      <<[role |-> "system", content |-> PPLX_SYSTEM_PROMPT]>>
        \o EarlierHistory
        \o <<[role |-> "user", content |-> a_out.message]>>

\* the messages of a streaming request end with the message of the request
\* twice
CurrentMessageTwice ==
  /\ a_pc = "streaming" /\ a_out.endpoint = "chat_stream"
  /\ LET n == Len(StreamMessages)
     IN  /\ n >= 3
         /\ StreamMessages[n] = [role |-> "user", content |-> a_out.message]
         /\ StreamMessages[n - 1] = [role |-> "user", content |-> a_out.message]

(***************************************************************************)
(* The file list and the index of a workspace, checked under SpecRag.      *)
(***************************************************************************)
\* the file list of the workspace holds the name
Listed(ws, name) == \E i \in 1..Len(ws.files) : ws.files[i] = name

\* the index of the workspace holds a chunk of the text of the file
Indexed(ws, name) ==
  \E j \in 1..Len(ws.index) : ws.index[j].page_content = <<"$">> \o name

\* C29: in every workspace a file name is in the file list if and only if
\* chunks of that file are in the index; a file whose loading, splitting or
\* indexing fails or gives no chunks is not listed.
C29_ListedIffIndexed ==
  \A id \in DOMAIN fm :
    \A name \in {File_a, File_b, File_c, File_d} :
      Listed(fm[id], name) <=> Indexed(fm[id], name)

\* a workspace lists a file of which the index holds nothing, and has never
\* been initialized
ListedButNotIndexed ==
  \E id \in DOMAIN fm :
    /\ ~fm[id].initialized
    /\ \E name \in {File_a, File_b, File_c, File_d} :
         Listed(fm[id], name) /\ ~Indexed(fm[id], name)

(***************************************************************************)
(* Chats that give and ask the name, in two workspaces.                    *)
(***************************************************************************)
MaxChats == 4

Msg_im ==
  <<"i", "'", "m", " ", "C", "y">>

Msg_my_name_is ==
  <<"M", "y", " ", "n", "a", "m", "e", " ", "i", "s", " ", "A", "l">>

Msg_tell_name ==
  <<"t", "e", "l", "l", " ", "m", "e", " ", "m", "y", " ", "n", "a", "m", "e">>

\* the messages that give a name, and the messages that ask for it
IntroMessages == {Msg_name, Msg_im, Msg_my_name_is}

AskMessages == {Msg_ask_name, Msg_tell_name}

\* a request to /api/chat while the histories have room for one more exchange
NameChat ==
  /\ a_pc = "idle"
  /\ history_size(memory, DOMAIN memory) + 2 <= 2 * MaxChats
  /\ \E ws \in IsoWorkspaces, message \in IntroMessages \cup AskMessages \cup {Msg_joke} :
       Handled("chat", ws, message,
               chat(Globals, ws, message, [DefaultEnv EXCEPT !.classifier = BackendOk(M_llm)]))

NameNext ==
  \/ NameChat /\ ApiFrame
  \/ Respond /\ ApiFrame

SpecName == Init /\ [][NameNext]_vars

(***************************************************************************)
(* The name handling of /api/chat, checked under SpecName.                 *)
(***************************************************************************)
\* the name that the message gives: the word after 'i am', 'i'm' or 'my name
\* is', kept with a capital first letter
NameIn(message) ==
  CASE message = Msg_name       -> <<"B", "o", "b">>
    [] message = Msg_im         -> <<"C", "y">>
    [] message = Msg_my_name_is -> <<"A", "l">>

\* the name given by the latest of the first n messages of the history that
\* gives one, None if there is none
RECURSIVE LastIntroduced(_, _)
LastIntroduced(h, n) ==
  IF n = 0 THEN None
  ELSE IF h[n].role = "user" /\ h[n].content \in IntroMessages THEN NameIn(h[n].content)
  ELSE LastIntroduced(h, n - 1)

\* the calls of routing and of the backends
RoutingCalls == {"router.route", "image_search.search"} \cup AnswerCalls \cup BackendCalls

Unrouted == \A i \in 1..Len(a_out.log) : a_out.log[i] \notin RoutingCalls

\* a message that gives a name stores it for the workspace and is answered
\* without the router or a backend
IntroStoresName ==
  (a_pc = "done" /\ a_out.message \in IntroMessages) =>
    /\ Unrouted
    /\ get_name(profile, a_out.workspace_id) = NameIn(a_out.message)
    /\ a_out.resp = Return(ChatResponse(Nice_to_meet_you \o NameIn(a_out.message) \o Ill_remember,
                                        a_out.workspace_id))

\* a message that asks for the name is answered, without the router or a
\* backend, with the name given last in the workspace, or with the fixed
\* reply where none was given
AskReturnsLastName ==
  (a_pc = "done" /\ a_out.message \in AskMessages) =>
    LET h    == memory[a_out.workspace_id]
        last == LastIntroduced(h, Len(h) - 2)
    IN  /\ Unrouted
        /\ a_out.resp = Return(ChatResponse(IF last = None THEN Not_told
                                            ELSE Your_name_is \o last \o Smile,
                                            a_out.workspace_id))

\* C30: at /api/chat a message 'i am X', 'i'm X' or 'my name is X' stores X
\* for its workspace and is answered without the router or any backend;
\* 'what is my name' and 'tell me my name' are answered with the name stored
\* last in the same workspace, and with the fixed reply in a workspace
\* where no name was stored.
C30_NameHandledBeforeRouting ==
  /\ IntroStoresName
  /\ AskReturnsLastName
  /\ \A ws \in IsoWorkspaces :
       get_name(profile, ws) =
         LastIntroduced(get_long_chat(memory, ws), Len(get_long_chat(memory, ws)))

\* a workspace was given two names and the question is answered with the
\* second, while the other workspace holds another name
C30_Witness ==
  /\ a_pc = "done"
  /\ a_out.workspace_id = "w1"
  /\ a_out.message = Msg_ask_name
  /\ Len(memory["w1"]) = 6
  /\ memory["w1"][1].content = Msg_name
  /\ memory["w1"][3].content = Msg_my_name_is
  /\ a_out.resp.value.answer = Your_name_is \o <<"A", "l">> \o Smile
  /\ get_name(profile, "w2") = <<"C", "y">>

\* a question in a workspace that was given no name gets the fixed reply,
\* while the other workspace holds a name
C30_WitnessNoName ==
  /\ a_pc = "done"
  /\ a_out.workspace_id = "w2"
  /\ a_out.message = Msg_tell_name
  /\ a_out.resp.value.answer = Not_told
  /\ get_name(profile, "w1") = <<"B", "o", "b">>

=============================================================================
